---------------------------- MODULE Spec2Model ----------------------------
(***************************************************************************)
(* A model of the sampling loop of computer_use_demo (loop.py), of the     *)
(* tool-call loop detector (utils/utils.py), of the local tool collection  *)
(* (tools/collection.py) and of the call-id handling of the two provider   *)
(* adapters (providers/anthropic_adapter.py, providers/openai_adapter.py). *)
(*                                                                         *)
(* The state of one run of sampling_loop is a record (variable run): its   *)
(* fields are the locals of sampling_loop and what the host, the backend,  *)
(* the tools and the telemetry sink have seen of the run.  Every step of   *)
(* the loop is an operator from a run record and the step's inputs to the  *)
(* next run record; the actions apply these operators.                     *)
(*                                                                         *)
(* Text is a sequence of word tokens; a substring test on text is a test   *)
(* for a contiguous run of tokens.                                         *)
(***************************************************************************)
EXTENDS Integers, Sequences, FiniteSets, TLC

VARIABLES
    run,                \* the run of sampling_loop under study
    twin,               \* a second run, fed the same inputs (SpecTwin only)
    recent_tool_calls,  \* SpecDetect: the history handed to _detect_tool_call_loop
    max_repeated,       \* SpecDetect: the threshold handed to it
    detection,          \* SpecDetect: what the last call returned
    turn_calls,         \* SpecDetect: the signatures the last turn pushed
    ctx,                \* SpecFilter, SpecContext: the message list under context management
    call                \* SpecInvoke, SpecParse, SpecEncode: one use of a provider adapter

vars == <<run, twin, recent_tool_calls, max_repeated, detection, turn_calls, ctx, call>>

---------------------------------------------------------------------------
(* Bounds of the model.                                                    *)

\* model calls explored per run against the varied backend
MaxCalls == 2
\* model calls explored per run against the refusing backend
MaxCallsDeep == 5
\* largest max_llm_calls of the budgeted runs of SpecBudget (at most MaxCallsDeep)
MaxBudget == 3
\* model calls explored per run in the side-by-side runs of SpecTwin
MaxCallsTwin == 3
\* model calls explored per run against the routing backend
MaxCallsRoute == 2
\* content segments per model response
MaxSegments == 2
\* tool results in a message list given to the image filter in SpecFilter
MaxResults == 3
\* largest images_to_keep and largest min_removal_threshold in SpecFilter
MaxKeep == 3
MaxChunk == 3
\* model calls over all runs, and turns of the host, in SpecContext
MaxCallsContext == 4
MaxHostTurns == 3
\* largest only_n_most_recent_images in SpecContext
MaxRetention == 2
\* entries of the tool_calls array of a response in SpecParse
MaxToolCalls == 2
\* messages of a transcript given to prepare_request in SpecEncode
MaxMessages == 3
\* images of the tool result encoded in SpecImages
MaxImages == 2
\* content blocks of the response parsed in SpecRich
MaxBlocks == 2
\* runs of sampling_loop in one process in SpecModes
MaxRuns == 3
\* signatures fed to the detector in SpecDetect
MaxFeed == 6
\* largest threshold max_repeated_tool_calls explored in SpecDetect
MaxThreshold == 7

(* Program constants.                                                      *)
MAX_PROVIDER_REFUSALS == 2
HISTORY_LIMIT == 10
ALTERNATION_WINDOW == 6
\* max_llm_calls = None
NoLimit == -1

---------------------------------------------------------------------------
(* Sequence helpers.                                                       *)

Last(seq) == seq[Len(seq)]

\* seq[-n:] of Python, for n >= 1
LastN(seq, n) == IF Len(seq) <= n THEN seq ELSE SubSeq(seq, Len(seq) - n + 1, Len(seq))

RECURSIVE Flatten(_)
Flatten(seqs) ==
    IF seqs = <<>> THEN <<>> ELSE Head(seqs) \o Flatten(Tail(seqs))

\* `needle in haystack` on token sequences
Contains(haystack, needle) ==
    \E i \in 0..(Len(haystack) - Len(needle)) :
        \A j \in 1..Len(needle) : haystack[i + j] = needle[j]

SeqsUpTo(S, n) == UNION {[1..k -> S] : k \in 0..n}

---------------------------------------------------------------------------
(* utils/utils.py: _detect_tool_call_loop                                  *)

\* the for loop of lines 69-73: entries equal to last_call, walking back from i
RECURSIVE CountBack(_, _, _)
CountBack(calls, i, last_call) ==
    IF i < 1 THEN 0
    ELSE IF calls[i] = last_call THEN 1 + CountBack(calls, i - 1, last_call)
    ELSE 0

consecutive_count(calls) == 1 + CountBack(calls, Len(calls) - 1, Last(calls))

\* lines 84-87, calls[-k] being calls[Len(calls) - k + 1]
AlternatingPattern(calls) ==
    LET n == Len(calls) IN
    /\ n >= ALTERNATION_WINDOW
    /\ calls[n] = calls[n - 2] /\ calls[n - 2] = calls[n - 4]
    /\ calls[n - 1] = calls[n - 3] /\ calls[n - 3] = calls[n - 5]

NoLoop == [is_loop |-> FALSE, description |-> ""]

\* a detector that forgets the last call when it counts the repetition
DetectToolCallLoop_OffByOne(calls, threshold) ==
    IF Len(calls) < threshold THEN NoLoop
    ELSE IF consecutive_count(calls) > threshold
         THEN [is_loop |-> TRUE, description |-> "consecutive"]
    ELSE IF AlternatingPattern(calls)
         THEN [is_loop |-> TRUE, description |-> "alternating"]
    ELSE NoLoop

DetectToolCallLoop(calls, threshold) ==
    IF Len(calls) < threshold THEN NoLoop
    ELSE IF consecutive_count(calls) >= threshold
         THEN [is_loop |-> TRUE, description |-> "consecutive"]
    ELSE IF AlternatingPattern(calls)
         THEN [is_loop |-> TRUE, description |-> "alternating"]
    ELSE NoLoop

\* loop.py 538-547: the turn's signatures are pushed, the last 10 are kept
PushHistory(history, signatures) == LastN(history \o signatures, HISTORY_LIMIT)

---------------------------------------------------------------------------
(* The conversation data: providers/base.py segments, and the blocks of    *)
(* the message list (BetaMessageParam) that sampling_loop keeps.           *)

TextSegment(text) == [type |-> "text", text |-> text]

ToolCallSegment(tool_name, arguments, call_id) ==
    [type |-> "tool_call", tool_name |-> tool_name,
     arguments |-> arguments, call_id |-> call_id]

IsToolCall(segment) == segment.type = "tool_call"
IsText(segment) == segment.type = "text"

RECURSIVE ToolCallsOf(_)
ToolCallsOf(segments) ==
    IF segments = <<>> THEN <<>>
    ELSE (IF IsToolCall(Head(segments)) THEN <<Head(segments)>> ELSE <<>>)
         \o ToolCallsOf(Tail(segments))

RECURSIVE TextPartsOf(_)
TextPartsOf(segments) ==
    IF segments = <<>> THEN <<>>
    ELSE (IF IsText(Head(segments)) /\ Head(segments).text # <<>>
          THEN <<Head(segments).text>> ELSE <<>>)
         \o TextPartsOf(Tail(segments))

\* the outcome of one tool execution: a ToolResult, or an exception
ToolResult(output, error) == [raised |-> FALSE, output |-> output, error |-> error]
\* tools/collection.py 60-62: a ToolError becomes a ToolFailure carrying its message
ToolFailure(error) == ToolResult("", error)
Raised == [raised |-> TRUE, output |-> "", error |-> ""]

---------------------------------------------------------------------------
(* What a backend answers: content blocks as the backend sent them.  A     *)
(* tool call's id is the backend's; the empty id is an absent one.         *)

TEXT_PLAIN == <<"Done">>
TEXT_REFUSAL == <<"I", "Cannot", "do", "that">>

RawIds == {"", "c1", "c2"}
\* ids uuid4() hands out, in the order it is called
UuidPool ==
    <<"u1", "u2", "u3", "u4", "u5", "u6", "u7", "u8", "u9", "u10", "u11", "u12",
      "u13", "u14", "u15", "u16">>

ARGS_CLICK == [action |-> "left_click", coordinate |-> <<104, 96>>]
ARGS_QUERY == [query |-> "q"]
ARGS_LS == [command |-> "ls"]

VariedRawBlocks ==
    {TextSegment(TEXT_PLAIN), TextSegment(TEXT_REFUSAL)}
    \cup {ToolCallSegment("computer", ARGS_CLICK, id) : id \in RawIds}
    \cup {ToolCallSegment("mcp_tool", ARGS_QUERY, id) : id \in RawIds}

RefusingRawBlocks ==
    {TextSegment(TEXT_PLAIN), TextSegment(TEXT_REFUSAL),
     ToolCallSegment("computer", ARGS_CLICK, "")}

\* a response without choices (OpenAI-compatible backends only)
NO_CHOICES == <<[type |-> "no_choices"]>>

\* a backend that keeps asking for the same two tool calls, one per response
\* or both in one response
LoopingResponses ==
    LET click == ToolCallSegment("computer", ARGS_CLICK, "")
        list == ToolCallSegment("bash", ARGS_LS, "")
    IN  {<<TextSegment(TEXT_PLAIN)>>, <<click>>, <<list>>, <<click, list>>}

\* a backend that asks for a local tool, for a remote tool, or for both
RoutingResponses ==
    LET click == ToolCallSegment("computer", ARGS_CLICK, "c1")
        query == ToolCallSegment("mcp_tool", ARGS_QUERY, "c2")
    IN  {<<TextSegment(TEXT_PLAIN)>>, <<TextSegment(TEXT_REFUSAL)>>,
         <<click>>, <<query>>, <<click, query>>}

RawResponses(cfg) ==
    IF cfg.backend = "varied" THEN SeqsUpTo(VariedRawBlocks, MaxSegments)
    ELSE IF cfg.backend = "routing" THEN RoutingResponses
    ELSE IF cfg.backend = "looping" THEN LoopingResponses
    ELSE SeqsUpTo(RefusingRawBlocks, 1)

---------------------------------------------------------------------------
(* The provider adapters: what parse_response makes of a response.         *)

\* anthropic_adapter.py 202-216: the block's id is taken as it is
AnthropicCallId(raw_id, uuid_count) == raw_id

\* openai_adapter.py 191 and 287: call.get("id") or str(uuid4())
OpenAICallId(raw_id, uuid_count) ==
    IF raw_id # "" THEN raw_id ELSE UuidPool[uuid_count + 1]

CallIdFor(provider, raw_id, uuid_count) ==
    IF provider = "openai" THEN OpenAICallId(raw_id, uuid_count)
    ELSE AnthropicCallId(raw_id, uuid_count)

\* the segments of a response, block by block; n counts the uuid4() calls so far
RECURSIVE ParseBlocks(_, _, _)
ParseBlocks(provider, blocks, n) ==
    IF blocks = <<>> THEN <<>>
    ELSE LET b == Head(blocks) IN
         IF IsToolCall(b)
         THEN <<ToolCallSegment(b.tool_name, b.arguments,
                                CallIdFor(provider, b.call_id, n))>>
              \o ParseBlocks(provider, Tail(blocks),
                             IF provider = "openai" /\ b.call_id = "" THEN n + 1 ELSE n)
         ELSE <<b>> \o ParseBlocks(provider, Tail(blocks), n)

RECURSIVE MissingIds(_)
MissingIds(blocks) ==
    IF blocks = <<>> THEN 0
    ELSE (IF IsToolCall(Head(blocks)) /\ Head(blocks).call_id = "" THEN 1 ELSE 0)
         + MissingIds(Tail(blocks))

\* openai_adapter.py 153-155: a response without choices is a ValueError
ParseFails(provider, raw) == provider = "openai" /\ raw = NO_CHOICES

---------------------------------------------------------------------------
(* loop.py: the helpers of sampling_loop.                                  *)

Lower(token) ==
    CASE token = "I" -> "i"
      [] token = "Cannot" -> "cannot"
      [] token = "Done" -> "done"
      [] token = "Unable" -> "unable"
      [] OTHER -> token

LowerAll(text) == [i \in 1..Len(text) |-> Lower(text[i])]

refusal_markers ==
    {<<"unable", "to">>, <<"not", "able", "to">>, <<"cannot">>, <<"can't">>,
     <<"outside", "the", "scope">>, <<"lack", "the", "ability">>,
     <<"no", "access", "to">>, <<"no", "ability", "to">>,
     <<"i", "do", "not", "have", "the", "ability">>}

\* 682-702: the lowered text parts, joined, hold one of the markers
LooksLikeRefusal(segments) ==
    LET text_parts == TextPartsOf(segments)
        combined == LowerAll(Flatten(text_parts))
    IN  /\ text_parts # <<>>
        /\ \E marker \in refusal_markers : Contains(combined, marker)

RECURSIVE Explanations(_)
Explanations(tool_segments) ==
    IF tool_segments = <<>> THEN <<>>
    ELSE <<"Calling", Head(tool_segments).tool_name>>
         \o Explanations(Tail(tool_segments))

\* 627-679: a text segment is put first when the message has tool calls and no text
EnsureExplanatoryText(segments) ==
    LET has_text == TextPartsOf(segments) # <<>>
        tool_segments == ToolCallsOf(segments)
    IN  IF has_text \/ tool_segments = <<>> THEN segments
        ELSE <<TextSegment(Explanations(tool_segments))>> \o segments

\* 841-858
SegmentToBetaBlock(segment) ==
    IF IsToolCall(segment)
    THEN [type |-> "tool_use", name |-> segment.tool_name,
          input |-> segment.arguments, id |-> segment.call_id]
    ELSE segment

\* 861-869
ConversationMessageToBeta(segments) ==
    [role |-> "assistant",
     content |-> [i \in 1..Len(segments) |-> SegmentToBetaBlock(segments[i])]]

REFUSAL_REMINDER_TEXT == <<"Reminder:", "you", "have", "full", "access", "to", "the", "tools">>

\* 520-527
ReminderMessage ==
    [role |-> "user", content |-> <<[type |-> "text", text |-> REFUSAL_REMINDER_TEXT]>>]

DEFAULT_ERROR_TEXT == "Tool reported an error but no details were captured."

\* 779-814: the ToolResult of a call as a segment carrying the call's id
MakeToolResultSegment(result, tool_use_id) ==
    IF result.error # ""
    THEN [type |-> "tool_result", call_id |-> tool_use_id,
          output_text |-> IF result.error = " " THEN DEFAULT_ERROR_TEXT
                          ELSE result.error,
          is_error |-> TRUE]
    ELSE [type |-> "tool_result", call_id |-> tool_use_id,
          output_text |-> result.output, is_error |-> FALSE]

\* 817-832
ToolResultSegmentToBeta(segment) ==
    [type |-> "tool_result", tool_use_id |-> segment.call_id,
     content |-> IF segment.output_text # ""
                 THEN <<[type |-> "text", text |-> segment.output_text]>>
                 ELSE <<>>,
     is_error |-> segment.is_error]

\* 618-622
ToolResultMessage(tool_result_segments) ==
    [role |-> "user",
     content |-> [i \in 1..Len(tool_result_segments) |->
                    ToolResultSegmentToBeta(tool_result_segments[i])]]

\* Python's round(v / 10) * 10 for v >= 0: halves go to the even multiple
Round10(v) ==
    LET q == v \div 10
        r == v % 10
    IN  IF r < 5 THEN q * 10
        ELSE IF r > 5 THEN (q + 1) * 10
        ELSE IF q % 2 = 0 THEN q * 10 ELSE (q + 1) * 10

\* utils/utils.py 3-50: the signature of a tool call
NormalizeToolCall(tool_name, tool_input) ==
    IF tool_name = "computer"
    THEN [tool |-> tool_name, action |-> tool_input.action,
          coordinate |-> <<Round10(tool_input.coordinate[1]),
                           Round10(tool_input.coordinate[2])>>]
    ELSE [tool |-> tool_name, input |-> tool_input]

Signatures(tool_call_segments) ==
    [i \in 1..Len(tool_call_segments) |->
        NormalizeToolCall(tool_call_segments[i].tool_name,
                          tool_call_segments[i].arguments)]

Event(kind, detail) == [kind |-> kind, detail |-> detail]

\* 169-226, 427-502, 557-574: evaluator.record_event inside try/except Exception;
\* a sink that raises has recorded nothing and the exception goes no further
Record(cfg, events, event) ==
    IF cfg.sink = "failing" THEN events ELSE Append(events, event)

---------------------------------------------------------------------------
(* Tool execution.                                                         *)

\* what a tool does when it is called: it returns, raises ToolError, or raises
\* another exception
ToolBehaviours == {"returns", "ToolError", "Exception"}

\* tools/collection.py 55-62
ToolCollectionRun(tool_map, name, behaviour) ==
    IF name \notin tool_map THEN ToolFailure("invalid")
    ELSE IF behaviour = "returns" THEN ToolResult("out", "")
    ELSE IF behaviour = "ToolError" THEN ToolFailure("boom")
    ELSE Raised

\* the remote capability provider's call_tool: a result, an error result, or a failure
McpCallTool(name, behaviour) ==
    IF behaviour = "returns" THEN ToolResult("remote", "")
    ELSE IF behaviour = "ToolError" THEN ToolResult("", "remote boom")
    ELSE Raised

\* a dispatch that prefers the remote provider for a name it offers as well
DispatchTool_RemoteWins(tool_map, name, behaviour) ==
    LET local == name \in tool_map /\ name # "computer"
        result == IF local THEN ToolCollectionRun(tool_map, name, behaviour)
                  ELSE McpCallTool(name, behaviour)
    IN  [raised |-> result.raised, output |-> result.output, error |-> result.error,
         via |-> IF local THEN "local" ELSE "remote"]

\* loop.py 595-604: a local name runs locally, any other name goes to the remote
DispatchTool(tool_map, name, behaviour) ==
    LET local == name \in tool_map
        result == IF local THEN ToolCollectionRun(tool_map, name, behaviour)
                  ELSE McpCallTool(name, behaviour)
    IN  [raised |-> result.raised, output |-> result.output, error |-> result.error,
         via |-> IF local THEN "local" ELSE "remote"]

---------------------------------------------------------------------------
(* One run of sampling_loop.                                               *)

\* the tools of the tool group (computer_use_20250124)
LOCAL_TOOLS == {"computer", "bash", "str_replace_editor"}

\* the servers of evaluator.config["mcp_servers"]
MCP_SERVERS == <<"s1", "s2">>

\* the arguments of sampling_loop; exec_mode "mixed" and a working sink unless
\* a set of configurations says otherwise
Config(provider, max_llm_calls, can_timeout, max_repeated_tool_calls, backend) ==
    [provider |-> provider, max_llm_calls |-> max_llm_calls,
     can_timeout |-> can_timeout,
     max_repeated_tool_calls |-> max_repeated_tool_calls,
     backend |-> backend,
     exec_mode |-> "mixed", evaluator_exec_mode |-> "",
     mcp_servers |-> MCP_SERVERS, sink |-> "ok"]

InitialMessages ==
    <<[role |-> "user", content |-> <<[type |-> "text", text |-> <<"task">>]>>]>>

\* loop.py 278-283: the state of a run when it enters the try block
InitRun(cfg) ==
    [cfg |-> cfg,
     pc |-> "setup",
     tool_map |-> {},              \* tool_collection.tool_map
     connects |-> <<>>,            \* the servers connect_to_server has been given
     timeout_polls |-> 0,          \* is_timeout() calls made
     messages |-> InitialMessages,
     refusal_retries |-> 0,
     llm_call_count |-> 0,
     tool_call_history |-> <<>>,
     segments |-> <<>>,            \* assistant_message.segments of the turn
     seg_idx |-> 1,                \* the segment the for loop of 581 is at
     tool_result_segments |-> <<>>,
     request |-> <<>>,             \* the messages the last request was built from
     invoke_count |-> 0,           \* adapter.invoke calls issued
     uuid_count |-> 0,             \* uuid4() calls made
     retval |-> "unset",           \* "messages" or "None" once returned
     exit_reason |-> "",
     events |-> <<>>,              \* what evaluator.record_event has been given
     output_calls |-> <<>>,        \* the blocks output_callback has been given
     tool_output_calls |-> <<>>,   \* the call ids tool_output_callback has been given
     dispatched |-> <<>>,          \* the tool executions started, in order
     cleanup_count |-> 0]          \* mcp_client.cleanup() calls

\* a run that never starts
IdleRun == [pc |-> "idle"]

\* an exception that leaves the function without the finally clause
RaiseOut_NoCleanup(s, reason) == [s EXCEPT !.pc = "raised", !.exit_reason = reason]

\* 623-624: the finally clause runs on every way out
Return(s, reason, retval) ==
    [s EXCEPT !.pc = "returned", !.retval = retval, !.exit_reason = reason,
              !.cleanup_count = @ + 1]

RaiseOut(s, reason) ==
    [s EXCEPT !.pc = "raised", !.exit_reason = reason, !.cleanup_count = @ + 1]

ALLOWED_EXEC_MODES == {"mixed", "gui", "api"}

\* 287-293: the mode asked for, overridden by the evaluator's when that is one
\* of the allowed modes
ActiveExecMode(exec_mode, evaluator_exec_mode) ==
    IF evaluator_exec_mode \in ALLOWED_EXEC_MODES THEN evaluator_exec_mode
    ELSE IF exec_mode \in ALLOWED_EXEC_MODES THEN exec_mode
    ELSE "mixed"

\* 294-298: in api mode the tools named after the computer are left out; the
\* tools of a run that finds the whole tool group
ToolMapFor(mode) == IF mode = "api" THEN LOCAL_TOOLS \ {"computer"} ELSE LOCAL_TOOLS

\* 299-301: the servers are connected in mixed and api mode
ConnectsFor(mode, servers) == IF mode \in {"mixed", "api"} THEN servers ELSE <<>>

\* how the set-up ends: it completes, or an exception is raised before the
\* servers are connected, by the first connect_to_server, or after the connects
SetupOutcomes == {"ok", "early_raises", "connect_raises", "late_raises"}

\* 284-334: the set-up inside the try block
Setup(s, outcome) ==
    LET mode == ActiveExecMode(s.cfg.exec_mode, s.cfg.evaluator_exec_mode)
        servers == ConnectsFor(mode, s.cfg.mcp_servers)
        ready == [s EXCEPT !.tool_map = ToolMapFor(mode), !.connects = servers,
                           !.pc = "loop_head"]
    IN  IF outcome = "early_raises" THEN RaiseOut(s, "setup_error")
        ELSE IF outcome = "connect_raises" /\ servers # <<>>
        THEN RaiseOut([s EXCEPT !.tool_map = ToolMapFor(mode),
                                !.connects = <<Head(servers)>>], "setup_error")
        ELSE IF outcome = "late_raises" THEN RaiseOut(ready, "setup_error")
        ELSE ready

AtLoopHead(s) == s.pc = "loop_head"

\* 336: is_timeout() answers true; the while loop ends and the function falls
\* off its end
TimeoutExit(s) == Return([s EXCEPT !.timeout_polls = @ + 1], "timeout", "None")

\* a budget check that lets one more call through
BudgetExhausted_OffByOne(s) ==
    s.cfg.max_llm_calls # NoLimit /\ s.llm_call_count > s.cfg.max_llm_calls

BudgetExhausted(s) ==
    s.cfg.max_llm_calls # NoLimit /\ s.llm_call_count >= s.cfg.max_llm_calls

\* 338-340: break
BudgetExit(s) == Return([s EXCEPT !.timeout_polls = @ + 1], "budget", "None")

\* a model call that a failing sink prevents
PrepareAndInvoke_SinkRaises(s) ==
    IF s.cfg.sink = "failing" THEN RaiseOut(s, "sink_error")
    ELSE [s EXCEPT !.timeout_polls = @ + 1,
                   !.request = s.messages,
                   !.events = Record(s.cfg, @, Event("LLM_QUERY_START", "")),
                   !.invoke_count = @ + 1,
                   !.pc = "awaiting_model"]

\* a message whose content is a str, not a list of blocks, has this field
IsStringContent(message) == "is_string" \in DOMAIN message

\* 872-920: the for loop of 879 goes over the content and calls item.get on
\* each item; the items of a non-empty str are its characters, which have no
\* get: AttributeError
BetaMessagesToTranscriptRaises(messages) ==
    \E m \in 1..Len(messages) :
        IsStringContent(messages[m]) /\ messages[m].content # ""

\* 336-441: is_timeout() answers false, the request is built from the messages
\* and the model call is issued
PrepareAndInvoke(s) ==
    IF BetaMessagesToTranscriptRaises(s.messages)
    THEN RaiseOut([s EXCEPT !.timeout_polls = @ + 1], "transcript_error")
    ELSE [s EXCEPT !.timeout_polls = @ + 1,
                   !.request = s.messages,
                   !.events = Record(s.cfg, @, Event("LLM_QUERY_START", "")),
                   !.invoke_count = @ + 1,
                   !.pc = "awaiting_model"]

\* the errors of adapter.invoke that the except clause of 457-463 names
CaughtErrors ==
    {"APIStatusError", "APIResponseValidationError", "APIError", "HTTPError",
     "ValueError"}
InvokeErrors == CaughtErrors \cup {"TypeError"}

\* an except clause that goes round the loop again
InvokeRaises_Retry(s, err) ==
    IF err \in CaughtErrors
    THEN [s EXCEPT !.events = Record(s.cfg, @, Event("LLM_QUERY_END", "error")),
                   !.pc = "loop_head"]
    ELSE RaiseOut(s, "invoke_error")

\* 457-482: adapter.invoke raised
InvokeRaises(s, err) ==
    IF err \in CaughtErrors
    THEN Return([s EXCEPT !.events = Record(s.cfg, @, Event("LLM_QUERY_END", "error"))],
                "adapter_error", "messages")
    ELSE RaiseOut(s, "invoke_error")

\* a budget test that lets the retry after the last one through
RefusalRetryAllowed_OneMore(s, segments) ==
    LooksLikeRefusal(segments) /\ s.refusal_retries <= MAX_PROVIDER_REFUSALS

\* 515-518
RefusalRetryAllowed(s, segments) ==
    LooksLikeRefusal(segments) /\ s.refusal_retries < MAX_PROVIDER_REFUSALS

\* 519-528: the reminder is appended and the loop continues
RefusalRetry(s) ==
    [s EXCEPT !.refusal_retries = @ + 1,
              !.messages = Append(@, ReminderMessage),
              !.pc = "loop_head"]

\* a tool-call turn that leaves the retry counter as it is
ResetRefusals_Forgotten(s) == s

\* 534
ResetRefusals(s) == [s EXCEPT !.refusal_retries = 0]

\* 536-578: the turn's calls are pushed on the history and a loop is reported
LoopDetection(s, tool_call_segments) ==
    LET history == PushHistory(s.tool_call_history, Signatures(tool_call_segments))
        found == DetectToolCallLoop(history, s.cfg.max_repeated_tool_calls)
    IN  [s EXCEPT !.tool_call_history = history,
                  !.events = IF found.is_loop
                             THEN Record(s.cfg, @, Event("loop_detection", found.description))
                             ELSE @]

\* a tool turn in which a detected loop intervenes: a corrective message is
\* injected, the history is cleared and the turn's tool calls are skipped
BeginToolTurn_Intervening(s, segments) ==
    LET detected == LoopDetection(s, ToolCallsOf(segments))
        fired == Len(detected.events) > Len(s.events)
    IN  IF fired
        THEN [detected EXCEPT !.refusal_retries = 0,
                              !.tool_call_history = <<>>,
                              !.messages = Append(@, ReminderMessage),
                              !.pc = "loop_head"]
        ELSE [detected EXCEPT !.refusal_retries = 0,
                              !.segments = segments, !.seg_idx = 1,
                              !.tool_result_segments = <<>>, !.pc = "dispatch"]

\* 507-580, for a response with tool calls
BeginToolTurn(s, segments) ==
    LET detected == LoopDetection(ResetRefusals(s), ToolCallsOf(segments))
    IN  [detected EXCEPT !.segments = segments, !.seg_idx = 1,
                         !.tool_result_segments = <<>>, !.pc = "dispatch"]

\* 484-534: the response is parsed, the assistant message is appended, and the
\* turn goes one of three ways
HandleResponse(s, raw) ==
    LET parsed == ParseBlocks(s.cfg.provider, raw, s.uuid_count)
        segments == EnsureExplanatoryText(parsed)
        s1 == [s EXCEPT !.uuid_count =
                            IF s.cfg.provider = "openai" THEN @ + MissingIds(raw) ELSE @,
                        !.events = Record(s.cfg, @, Event("LLM_QUERY_END", "success")),
                        !.messages = Append(@, ConversationMessageToBeta(segments))]
    IN  IF ToolCallsOf(segments) = <<>>
        THEN IF RefusalRetryAllowed(s1, segments) THEN RefusalRetry(s1)
             ELSE [s1 EXCEPT !.pc = "auto_save"]
        ELSE BeginToolTurn(s1, segments)

\* 441-534: adapter.invoke returned
InvokeReturns(s, raw) ==
    LET s1 == [s EXCEPT !.llm_call_count = @ + 1,
                        !.events = Record(s.cfg, @, Event("LLM_FIRST_TOKEN_RECEIVED", ""))]
    IN  IF ParseFails(s.cfg.provider, raw) THEN RaiseOut(s1, "parse_error")
        ELSE HandleResponse(s1, raw)

\* 239: the tool input of the save keystroke
SAVE_KEYSTROKE == [action |-> "key", text |-> "ctrl+s"]

\* a save keystroke whose failure is not swallowed
AutoSave_Propagates(s, behaviour) ==
    IF "computer" \in s.tool_map /\ behaviour = "Exception"
    THEN RaiseOut(s, "save_error")
    ELSE Return(s, "final", "messages")

\* 232-246 and 529-532: the save keystroke, then return messages
AutoSave(s, behaviour) ==
    LET result == ToolCollectionRun(s.tool_map, "computer", behaviour)
        saved ==
            IF "computer" \notin s.tool_map THEN s
            ELSE [s EXCEPT !.dispatched =
                               Append(@, [name |-> "computer", input |-> SAVE_KEYSTROKE,
                                          call_id |-> "auto_save",
                                          behaviour |-> behaviour, via |-> "local"]),
                           !.events =
                               LET started ==
                                       Record(s.cfg, @, Event("TOOL_CALL_START", "computer"))
                               IN  IF result.raised THEN started
                                   ELSE Record(s.cfg, started,
                                               Event("TOOL_CALL_END", "computer"))]
    IN  Return(saved, "final", "messages")

AtSegment(s) == s.pc = "dispatch" /\ s.seg_idx <= Len(s.segments)

\* 581-613: one pass of the for loop over the segments
DispatchSegment(s, behaviour) ==
    LET segment == s.segments[s.seg_idx]
        s1 == [s EXCEPT !.output_calls = Append(@, SegmentToBetaBlock(segment)),
                        !.seg_idx = @ + 1]
    IN  IF ~IsToolCall(segment) THEN s1
        ELSE
          LET result == DispatchTool(s.tool_map, segment.tool_name, behaviour)
              s2 == [s1 EXCEPT !.events =
                                   Record(s.cfg, @, Event("TOOL_CALL_START", segment.tool_name)),
                               !.dispatched =
                                   Append(@, [name |-> segment.tool_name,
                                              input |-> segment.arguments,
                                              call_id |-> segment.call_id,
                                              behaviour |-> behaviour,
                                              via |-> result.via])]
          IN  IF result.raised THEN RaiseOut(s2, "tool_error")
              ELSE [s2 EXCEPT !.events =
                                  Record(s.cfg, @, Event("TOOL_CALL_END", segment.tool_name)),
                              !.tool_result_segments =
                                  Append(@, MakeToolResultSegment(result, segment.call_id)),
                              !.tool_output_calls = Append(@, segment.call_id)]

\* a for loop that is left after its first pass
AtTurnEnd_Early(s) == s.pc = "dispatch" /\ s.seg_idx > 1

AtTurnEnd(s) == s.pc = "dispatch" /\ s.seg_idx > Len(s.segments)

\* a turn that goes round again without appending its tool results
CloseTurn_ResultsNotAppended(s) == [s EXCEPT !.pc = "loop_head"]

\* 615-622: the tool results are appended as one user message
CloseTurn(s) ==
    IF s.tool_result_segments = <<>> THEN Return(s, "no_results", "messages")
    ELSE [s EXCEPT !.messages = Append(@, ToolResultMessage(s.tool_result_segments)),
                   !.pc = "loop_head"]

\* the model calls the model explores in a run
CallCap(cfg) ==
    IF cfg.backend = "varied" THEN MaxCalls
    ELSE IF cfg.backend = "looping" THEN MaxCallsTwin
    ELSE IF cfg.backend = "routing" THEN MaxCallsRoute
    ELSE MaxCallsDeep

\* what a backend may answer to the next request
Answers(s) ==
    RawResponses(s.cfg) \cup (IF s.cfg.provider = "openai" THEN {NO_CHOICES} ELSE {})

---------------------------------------------------------------------------
(* Spec and SpecRefusal: one run of sampling_loop.                         *)

detector_vars == <<recent_tool_calls, max_repeated, detection, turn_calls>>

DetectorIdle ==
    /\ recent_tool_calls = <<>>
    /\ max_repeated = 0
    /\ detection = NoLoop
    /\ turn_calls = <<>>
    /\ ctx = [pc |-> "idle"]
    /\ call = [pc |-> "idle"]

VariedConfigs ==
    {Config(p, m, t, 2, "varied") :
        p \in {"anthropic", "openai"}, m \in {NoLimit, 1}, t \in BOOLEAN}

RefusingConfigs ==
    {Config(p, m, t, 2, "refusing") :
        p \in {"anthropic", "openai"}, m \in {NoLimit, 2}, t \in BOOLEAN}

Init ==
    /\ \E cfg \in VariedConfigs : run = InitRun(cfg)
    /\ twin = IdleRun
    /\ DetectorIdle

InitRefusal ==
    /\ \E cfg \in RefusingConfigs : run = InitRun(cfg)
    /\ twin = IdleRun
    /\ DetectorIdle

SetUp ==
    /\ run.pc = "setup"
    /\ \E outcome \in SetupOutcomes : run' = Setup(run, outcome)
    /\ UNCHANGED <<twin, detector_vars, ctx, call>>

Timeout ==
    /\ AtLoopHead(run) /\ run.cfg.can_timeout
    /\ run' = TimeoutExit(run)
    /\ UNCHANGED <<twin, detector_vars, ctx, call>>

Budget ==
    /\ AtLoopHead(run) /\ BudgetExhausted(run)
    /\ run' = BudgetExit(run)
    /\ UNCHANGED <<twin, detector_vars, ctx, call>>

Invoke ==
    /\ AtLoopHead(run) /\ ~BudgetExhausted(run)
    /\ run.invoke_count < CallCap(run.cfg)
    /\ run' = PrepareAndInvoke(run)
    /\ UNCHANGED <<twin, detector_vars, ctx, call>>

InvokeError ==
    /\ run.pc = "awaiting_model"
    /\ \E err \in InvokeErrors : run' = InvokeRaises(run, err)
    /\ UNCHANGED <<twin, detector_vars, ctx, call>>

InvokeResponse ==
    /\ run.pc = "awaiting_model"
    /\ \E raw \in Answers(run) : run' = InvokeReturns(run, raw)
    /\ UNCHANGED <<twin, detector_vars, ctx, call>>

Save ==
    /\ run.pc = "auto_save"
    /\ \E behaviour \in ToolBehaviours : run' = AutoSave(run, behaviour)
    /\ UNCHANGED <<twin, detector_vars, ctx, call>>

Dispatch ==
    /\ AtSegment(run)
    /\ \E behaviour \in ToolBehaviours : run' = DispatchSegment(run, behaviour)
    /\ UNCHANGED <<twin, detector_vars, ctx, call>>

Close ==
    /\ AtTurnEnd(run)
    /\ run' = CloseTurn(run)
    /\ UNCHANGED <<twin, detector_vars, ctx, call>>

Next ==
    \/ SetUp
    \/ Timeout
    \/ Budget
    \/ Invoke
    \/ InvokeError
    \/ InvokeResponse
    \/ Save
    \/ Dispatch
    \/ Close

Spec == Init /\ [][Next]_vars

SpecRefusal == InitRefusal /\ [][Next]_vars

\* SpecString: a run whose first message has a list of blocks or a plain
\* string as its content
StringMessages == <<[role |-> "user", content |-> "Test message", is_string |-> TRUE]>>

InitString ==
    /\ \E cfg \in RefusingConfigs, initial \in {InitialMessages, StringMessages} :
          run = [InitRun(cfg) EXCEPT !.messages = initial]
    /\ twin = IdleRun
    /\ DetectorIdle

SpecString == InitString /\ [][Next]_vars

\* SpecRoute: one run in each execution mode, against the routing backend
RouteConfigs ==
    {[Config(p, m[1], m[2], 2, "routing")
         EXCEPT !.exec_mode = e[1], !.evaluator_exec_mode = e[2]] :
        p \in {"anthropic", "openai"},
        m \in {<<NoLimit, FALSE>>, <<1, TRUE>>},
        e \in {<<"mixed", "">>, <<"gui", "">>, <<"api", "">>, <<"api", "gui">>,
               <<"desktop", "">>}}

InitRoute ==
    /\ \E cfg \in RouteConfigs : run = InitRun(cfg)
    /\ twin = IdleRun
    /\ DetectorIdle

SpecRoute == InitRoute /\ [][Next]_vars

---------------------------------------------------------------------------
(* SpecTwin: two runs of sampling_loop side by side, given the same model  *)
(* responses and the same tool outcomes.  `run` has a threshold that loops *)
(* reach; `twin` has one that the 10-entry history of 545-547 never        *)
(* reaches, so that _detect_tool_call_loop returns at utils.py 63-64.      *)

NEVER_FIRES == HISTORY_LIMIT + 1

TwinConfigs ==
    {Config(p, m[1], m[2], k, "looping") :
        p \in {"anthropic", "openai"},
        m \in {<<NoLimit, FALSE>>, <<2, TRUE>>},
        k \in 1..3}

InitTwin ==
    /\ \E cfg \in TwinConfigs :
          /\ run = InitRun(cfg)
          /\ twin = InitRun([cfg EXCEPT !.max_repeated_tool_calls = NEVER_FIRES])
    /\ DetectorIdle

TwinSetUp ==
    /\ run.pc = "setup"
    /\ \E outcome \in SetupOutcomes :
          /\ run' = Setup(run, outcome)
          /\ twin' = IF twin.pc = "setup" THEN Setup(twin, outcome) ELSE twin
    /\ UNCHANGED <<detector_vars, ctx, call>>

TwinTimeout ==
    /\ AtLoopHead(run) /\ run.cfg.can_timeout
    /\ run' = TimeoutExit(run)
    /\ twin' = IF AtLoopHead(twin) THEN TimeoutExit(twin) ELSE twin
    /\ UNCHANGED <<detector_vars, ctx, call>>

TwinBudget ==
    /\ AtLoopHead(run) /\ BudgetExhausted(run)
    /\ run' = BudgetExit(run)
    /\ twin' = IF AtLoopHead(twin) /\ BudgetExhausted(twin) THEN BudgetExit(twin) ELSE twin
    /\ UNCHANGED <<detector_vars, ctx, call>>

TwinInvoke ==
    /\ AtLoopHead(run) /\ ~BudgetExhausted(run)
    /\ run.invoke_count < CallCap(run.cfg)
    /\ run' = PrepareAndInvoke(run)
    /\ twin' = IF AtLoopHead(twin) /\ ~BudgetExhausted(twin)
               THEN PrepareAndInvoke(twin) ELSE twin
    /\ UNCHANGED <<detector_vars, ctx, call>>

TwinInvokeError ==
    /\ run.pc = "awaiting_model"
    /\ \E err \in InvokeErrors :
          /\ run' = InvokeRaises(run, err)
          /\ twin' = IF twin.pc = "awaiting_model" THEN InvokeRaises(twin, err) ELSE twin
    /\ UNCHANGED <<detector_vars, ctx, call>>

TwinInvokeResponse ==
    /\ run.pc = "awaiting_model"
    /\ \E raw \in Answers(run) :
          /\ run' = InvokeReturns(run, raw)
          /\ twin' = IF twin.pc = "awaiting_model" THEN InvokeReturns(twin, raw) ELSE twin
    /\ UNCHANGED <<detector_vars, ctx, call>>

TwinSave ==
    /\ run.pc = "auto_save"
    /\ \E behaviour \in ToolBehaviours :
          /\ run' = AutoSave(run, behaviour)
          /\ twin' = IF twin.pc = "auto_save" THEN AutoSave(twin, behaviour) ELSE twin
    /\ UNCHANGED <<detector_vars, ctx, call>>

TwinDispatch ==
    /\ AtSegment(run)
    /\ \E behaviour \in ToolBehaviours :
          /\ run' = DispatchSegment(run, behaviour)
          /\ twin' = IF AtSegment(twin) THEN DispatchSegment(twin, behaviour) ELSE twin
    /\ UNCHANGED <<detector_vars, ctx, call>>

TwinClose ==
    /\ AtTurnEnd(run)
    /\ run' = CloseTurn(run)
    /\ twin' = IF AtTurnEnd(twin) THEN CloseTurn(twin) ELSE twin
    /\ UNCHANGED <<detector_vars, ctx, call>>

NextTwin ==
    \/ TwinSetUp
    \/ TwinTimeout
    \/ TwinBudget
    \/ TwinInvoke
    \/ TwinInvokeError
    \/ TwinInvokeResponse
    \/ TwinSave
    \/ TwinDispatch
    \/ TwinClose

SpecTwin == InitTwin /\ [][NextTwin]_vars

\* SpecSink: the run's telemetry sink raises at every record_event, the
\* twin's records; they are given the same responses and tool outcomes
SinkConfigs ==
    {Config(p, m[1], m[2], k, "looping") :
        p \in {"anthropic", "openai"},
        m \in {<<NoLimit, FALSE>>, <<2, TRUE>>},
        k \in 1..2}

InitSink ==
    /\ \E cfg \in SinkConfigs :
          /\ run = InitRun([cfg EXCEPT !.sink = "failing"])
          /\ twin = InitRun(cfg)
    /\ DetectorIdle

SpecSink == InitSink /\ [][NextTwin]_vars

---------------------------------------------------------------------------
(* Context management: _maybe_filter_to_n_most_recent_images and           *)
(* _inject_prompt_caching, on message lists that keep what the two read:   *)
(* a message is its role and its content, a list of blocks or a string; a  *)
(* block has a type, a cache_control marker or none, and, when it is a     *)
(* tool_result, a content list of text and image items.                    *)

Item(type, data) == [type |-> type, data |-> data]

Block(type, content) == [type |-> type, cache_control |-> FALSE, content |-> content]

ListMessage(role, blocks) == [role |-> role, is_list |-> TRUE, content |-> blocks]

\* a message whose content is a string
StringMessage(role) == [role |-> role, is_list |-> FALSE, content |-> <<>>]

RECURSIVE ImagesOfItems(_)
ImagesOfItems(items) ==
    IF items = <<>> THEN <<>>
    ELSE (IF Head(items).type = "image" THEN <<Head(items)>> ELSE <<>>)
         \o ImagesOfItems(Tail(items))

RECURSIVE ImagesOfBlocks(_)
ImagesOfBlocks(blocks) ==
    IF blocks = <<>> THEN <<>>
    ELSE (IF Head(blocks).type = "tool_result" THEN ImagesOfItems(Head(blocks).content)
          ELSE <<>>)
         \o ImagesOfBlocks(Tail(blocks))

\* 717-735: the image items of the tool_result blocks, in message order
RECURSIVE ToolResultImages(_)
ToolResultImages(messages) ==
    IF messages = <<>> THEN <<>>
    ELSE (IF Head(messages).is_list THEN ImagesOfBlocks(Head(messages).content) ELSE <<>>)
         \o ToolResultImages(Tail(messages))

\* 741-751, the inner loop: images are dropped while images_to_remove > 0
RECURSIVE FilterItems(_, _)
FilterItems(items, images_to_remove) ==
    IF items = <<>> THEN [kept |-> <<>>, left |-> images_to_remove]
    ELSE IF Head(items).type = "image" /\ images_to_remove > 0
    THEN FilterItems(Tail(items), images_to_remove - 1)
    ELSE LET rest == FilterItems(Tail(items), images_to_remove)
         IN  [kept |-> <<Head(items)>> \o rest.kept, left |-> rest.left]

RECURSIVE FilterBlocks(_, _)
FilterBlocks(blocks, images_to_remove) ==
    IF blocks = <<>> THEN [kept |-> <<>>, left |-> images_to_remove]
    ELSE IF Head(blocks).type = "tool_result"
    THEN LET new_content == FilterItems(Head(blocks).content, images_to_remove)
             rest == FilterBlocks(Tail(blocks), new_content.left)
         IN  [kept |-> <<[Head(blocks) EXCEPT !.content = new_content.kept]>> \o rest.kept,
              left |-> rest.left]
    ELSE LET rest == FilterBlocks(Tail(blocks), images_to_remove)
         IN  [kept |-> <<Head(blocks)>> \o rest.kept, left |-> rest.left]

RECURSIVE FilterMessages(_, _)
FilterMessages(messages, images_to_remove) ==
    IF messages = <<>> THEN <<>>
    ELSE IF Head(messages).is_list
    THEN LET new_blocks == FilterBlocks(Head(messages).content, images_to_remove)
         IN  <<[Head(messages) EXCEPT !.content = new_blocks.kept]>>
             \o FilterMessages(Tail(messages), new_blocks.left)
    ELSE <<Head(messages)>> \o FilterMessages(Tail(messages), images_to_remove)

\* a filter that removes every image beyond images_to_keep, chunk or no chunk
MaybeFilterToNMostRecentImages_Unchunked(messages, images_to_keep, min_removal_threshold) ==
    FilterMessages(messages, Len(ToolResultImages(messages)) - images_to_keep)

\* 705-751
MaybeFilterToNMostRecentImages(messages, images_to_keep, min_removal_threshold) ==
    LET total_images == Len(ToolResultImages(messages))
        over == total_images - images_to_keep
        images_to_remove == over - (over % min_removal_threshold)
    IN  FilterMessages(messages, images_to_remove)

\* content[-1] of message i gets the marker, or loses it
SetLastMarker(messages, i, marked) ==
    [messages EXCEPT ![i].content[Len(messages[i].content)].cache_control = marked]

\* 761-776: the messages from i down to the first, newest first
RECURSIVE InjectFrom(_, _, _)
InjectFrom(messages, i, breakpoints_remaining) ==
    IF i = 0 THEN messages
    ELSE IF messages[i].role = "user" /\ messages[i].is_list
    THEN IF breakpoints_remaining > 0
         THEN InjectFrom(SetLastMarker(messages, i, TRUE), i - 1, breakpoints_remaining - 1)
         ELSE SetLastMarker(messages, i, FALSE)
    ELSE InjectFrom(messages, i - 1, breakpoints_remaining)

BREAKPOINTS == 3

\* 754-776
InjectPromptCaching(messages) == InjectFrom(messages, Len(messages), BREAKPOINTS)

\* 341-359: what an iteration does to the message list, and to the local
\* only_n_most_recent_images (0 stands for None too: both are falsy), before
\* the request is built
ContextManagement(c) ==
    LET enable_prompt_caching == c.provider = "anthropic"
        image_truncation_threshold == c.only_n_most_recent_images
        cached == IF enable_prompt_caching
                  THEN [c EXCEPT !.messages = InjectPromptCaching(@),
                                 !.only_n_most_recent_images = 0]
                  ELSE c
    IN  IF cached.only_n_most_recent_images # 0
        THEN [cached EXCEPT !.messages =
                                MaybeFilterToNMostRecentImages(
                                    @, cached.only_n_most_recent_images,
                                    image_truncation_threshold)]
        ELSE cached

---------------------------------------------------------------------------
(* SpecFilter: _maybe_filter_to_n_most_recent_images applied to a message  *)
(* list of tool results.                                                    *)

\* what a tool result holds: text and screenshots, T a text and I an image
ResultLayouts ==
    {<<>>, <<"T">>, <<"I">>, <<"T", "I">>, <<"I", "I">>, <<"I", "T", "I">>}

RECURSIVE ImageCount(_)
ImageCount(layout) ==
    IF layout = <<>> THEN 0
    ELSE (IF Head(layout) = "I" THEN 1 ELSE 0) + ImageCount(Tail(layout))

\* the items of a tool result; its images are numbered from `first` on
RECURSIVE ItemsOf(_, _)
ItemsOf(layout, first) ==
    IF layout = <<>> THEN <<>>
    ELSE IF Head(layout) = "I"
    THEN <<Item("image", first)>> \o ItemsOf(Tail(layout), first + 1)
    ELSE <<Item("text", 0)>> \o ItemsOf(Tail(layout), first)

\* a tool turn for each layout: the assistant's tool_use, then the tool_result
RECURSIVE ToolTurns(_, _)
ToolTurns(layouts, first) ==
    IF layouts = <<>> THEN <<>>
    ELSE <<ListMessage("assistant", <<Block("tool_use", <<>>)>>),
           ListMessage("user", <<Block("tool_result", ItemsOf(Head(layouts), first))>>)>>
         \o ToolTurns(Tail(layouts), first + ImageCount(Head(layouts)))

\* run_pure_computer_use_with_eval.py 201-225: the host's first message, the
\* task and a screenshot that is no tool result
TaskMessage == ListMessage("user", <<Block("text", <<>>), Block("image", <<>>)>>)

FilterInputs ==
    {<<TaskMessage>> \o ToolTurns(layouts, 1) :
        layouts \in SeqsUpTo(ResultLayouts, MaxResults)}

InitFilter ==
    /\ run = IdleRun
    /\ twin = IdleRun
    /\ recent_tool_calls = <<>>
    /\ max_repeated = 0
    /\ detection = NoLoop
    /\ turn_calls = <<>>
    /\ call = [pc |-> "idle"]
    /\ \E messages \in FilterInputs, keep \in 1..MaxKeep, chunk \in 1..MaxChunk :
          ctx = [pc |-> "filter_input", messages |-> messages, before |-> messages,
                 images_to_keep |-> keep, min_removal_threshold |-> chunk]

FilterImages ==
    /\ ctx.pc = "filter_input"
    /\ ctx' = [ctx EXCEPT !.messages =
                              MaybeFilterToNMostRecentImages(
                                  ctx.messages, ctx.images_to_keep,
                                  ctx.min_removal_threshold),
                          !.pc = "filtered"]
    /\ UNCHANGED <<run, twin, detector_vars, call>>

NextFilter == FilterImages

SpecFilter == InitFilter /\ [][NextFilter]_vars

---------------------------------------------------------------------------
(* SpecContext: the message list over the runs of sampling_loop that       *)
(* run_agent_loop makes, one per turn of the host, or over the one run of  *)
(* a caller that passes an image-retention limit (run_agent_loop passes    *)
(* None).                                                                   *)

\* 817-832: what a tool result of the loop holds: an output, a screenshot or both
LoopLayouts == {<<"T">>, <<"I">>, <<"T", "I">>}

TextTurn == ListMessage("assistant", <<Block("text", <<>>)>>)

ToolUseTurn == ListMessage("assistant", <<Block("tool_use", <<>>)>>)

\* 520-527, and run_pure_computer_use_with_eval.py 201-204: a user message of one text
UserText == ListMessage("user", <<Block("text", <<>>)>>)

ContextConfigs ==
    {[provider |-> p, only_n |-> n] :
        p \in {"anthropic", "openai"}, n \in 0..MaxRetention}

InitContext ==
    /\ run = IdleRun
    /\ twin = IdleRun
    /\ recent_tool_calls = <<>>
    /\ max_repeated = 0
    /\ detection = NoLoop
    /\ turn_calls = <<>>
    /\ call = [pc |-> "idle"]
    /\ \E cfg \in ContextConfigs :
          ctx = [pc |-> "host", provider |-> cfg.provider, only_n |-> cfg.only_n,
                 only_n_most_recent_images |-> cfg.only_n, messages |-> <<>>,
                 turn_count |-> 0, calls |-> 0, refusal_retries |-> 0,
                 next_image |-> 1, runs_without_a_call |-> 0, calls_in_run |-> 0]

\* run_pure_computer_use_with_eval.py 169-262: the host appends the user's
\* message, on the first turn with a screenshot if it got one, and calls
\* sampling_loop, which starts with its parameters and fresh locals
HostTurn ==
    /\ ctx.pc = "host"
    /\ ctx.turn_count < MaxHostTurns
    /\ ctx.turn_count = 0 \/ ctx.only_n = 0
    /\ \E screenshot \in BOOLEAN :
          /\ screenshot => ctx.turn_count = 0
          /\ ctx' = [ctx EXCEPT
                        !.messages = Append(@, IF screenshot THEN TaskMessage
                                               ELSE UserText),
                        !.only_n_most_recent_images = ctx.only_n,
                        !.refusal_retries = 0,
                        !.calls_in_run = 0,
                        !.pc = "setup"]
    /\ UNCHANGED <<run, twin, detector_vars, call>>

\* sampling_loop returned the list, or raised and run_agent_loop caught it
\* (266-269): the list is the host's again and the turn is over (289)
BackToHost(c) ==
    [c EXCEPT !.pc = "host", !.turn_count = @ + 1,
              !.runs_without_a_call = IF c.calls_in_run = 0 THEN @ + 1 ELSE @]

\* 285-334: the setup succeeds, or raises out of sampling_loop
ContextSetUp ==
    /\ ctx.pc = "setup"
    /\ \E ok \in BOOLEAN :
          ctx' = IF ok THEN [ctx EXCEPT !.pc = "head"] ELSE BackToHost(ctx)
    /\ UNCHANGED <<run, twin, detector_vars, call>>

\* 336: the time is up; sampling_loop returns None, which the host takes for
\* its list (245) and stops at its own poll (171-173)
ContextTimeout ==
    /\ ctx.pc = "head"
    /\ ctx' = [ctx EXCEPT !.pc = "ended"]
    /\ UNCHANGED <<run, twin, detector_vars, call>>

\* 341-456: context management, then the request is built from the list
ContextPrepare ==
    /\ ctx.pc = "head"
    /\ ctx.calls < MaxCallsContext
    /\ ctx' = [ContextManagement(ctx) EXCEPT !.calls = @ + 1, !.calls_in_run = @ + 1,
                                              !.pc = "awaiting"]
    /\ UNCHANGED <<run, twin, detector_vars, call>>

\* 457-482: adapter.invoke raised an error the loop handles
ContextInvokeFails ==
    /\ ctx.pc = "awaiting"
    /\ ctx' = BackToHost(ctx)
    /\ UNCHANGED <<run, twin, detector_vars, call>>

\* 505-622: a tool call; its result is appended as a user message, or the
\* tool raises after the assistant's message was appended
ContextToolTurn ==
    /\ ctx.pc = "awaiting"
    /\ \/ \E layout \in LoopLayouts :
             ctx' = [ctx EXCEPT
                       !.messages = @ \o <<ToolUseTurn,
                                            ListMessage("user",
                                                <<Block("tool_result",
                                                        ItemsOf(layout, ctx.next_image))>>)>>,
                       !.next_image = @ + ImageCount(layout),
                       !.refusal_retries = 0,
                       !.pc = "head"]
       \/ ctx' = BackToHost([ctx EXCEPT !.messages = Append(@, ToolUseTurn)])
    /\ UNCHANGED <<run, twin, detector_vars, call>>

\* 514-532: no tool call: a refusal gets the reminder, anything else ends the run
ContextTextTurn ==
    /\ ctx.pc = "awaiting"
    /\ \/ /\ ctx.refusal_retries < MAX_PROVIDER_REFUSALS
          /\ ctx' = [ctx EXCEPT !.messages = @ \o <<TextTurn, UserText>>,
                                !.refusal_retries = @ + 1,
                                !.pc = "head"]
       \/ ctx' = BackToHost([ctx EXCEPT !.messages = Append(@, TextTurn)])
    /\ UNCHANGED <<run, twin, detector_vars, call>>

NextContext ==
    \/ HostTurn
    \/ ContextSetUp
    \/ ContextTimeout
    \/ ContextPrepare
    \/ ContextInvokeFails
    \/ ContextToolTurn
    \/ ContextTextTurn

SpecContext == InitContext /\ [][NextContext]_vars

---------------------------------------------------------------------------
(* SpecBudget: runs with a model-call budget, against the backend that     *)
(* answers with a text, a refusal or a tool call; every step that is       *)
(* enabled is taken in the end (the coroutine is never abandoned).         *)

BudgetConfigs ==
    {Config(p, n, t, 2, "refusing") :
        p \in {"anthropic", "openai"}, n \in 1..MaxBudget, t \in BOOLEAN}

InitBudget ==
    /\ \E cfg \in BudgetConfigs : run = InitRun(cfg)
    /\ twin = IdleRun
    /\ DetectorIdle

SpecBudget == InitBudget /\ [][Next]_vars /\ WF_vars(Next)

---------------------------------------------------------------------------
(* SpecInvoke: prepare_request and invoke of the two adapters, with and    *)
(* without an api_key and an api_response_callback in extra_options.       *)

\* anthropic_adapter.py 150: max_retries of the client the adapter creates
MAX_RETRIES == 4

\* what one round trip to the backend comes to
RoundTripOutcomes == {"ok", "connection_error", "server_error", "client_error"}

\* the failures the client created at 150 sends again while it has retries left
Retryable == {"connection_error", "server_error"}

\* what invoke raises for the outcome of its last round trip
RaisedFor(adapter, outcome) ==
    IF adapter = "openai"
    THEN (IF outcome = "connection_error" THEN "HTTPError" ELSE "HTTPStatusError")
    ELSE (IF outcome = "connection_error" THEN "APIConnectionError" ELSE "APIStatusError")

Callback(request, response, error) ==
    [request |-> request, response |-> response, error |-> error]

InvokeConfigs ==
    {[adapter |-> a, api_key |-> k, api_response_callback |-> c] :
        a \in {"anthropic", "openai"}, k \in BOOLEAN, c \in BOOLEAN}

InitInvoke ==
    /\ run = IdleRun
    /\ twin = IdleRun
    /\ recent_tool_calls = <<>>
    /\ max_repeated = 0
    /\ detection = NoLoop
    /\ turn_calls = <<>>
    /\ ctx = [pc |-> "idle"]
    /\ \E cfg \in InvokeConfigs :
          call = [pc |-> "prepare", adapter |-> cfg.adapter, api_key |-> cfg.api_key,
                  api_response_callback |-> cfg.api_response_callback,
                  request |-> "none", authorization |-> FALSE,
                  round_trips |-> <<>>, callbacks |-> <<>>, result |-> "none"]

\* openai_adapter.py 99-121: the Authorization header is set if there is an
\* api_key, and the request is returned either way
OpenAIPrepareRequest(c) ==
    [c EXCEPT !.request = "request", !.authorization = c.api_key, !.pc = "ready"]

\* anthropic_adapter.py 90-96 and 147-150: the api_key, or None, is handed to
\* the Anthropic client; whether the client takes None is its own affair
AnthropicPrepareRequest(c, client_accepts) ==
    IF c.api_key \/ client_accepts
    THEN [c EXCEPT !.request = "request", !.authorization = c.api_key, !.pc = "ready"]
    ELSE [c EXCEPT !.result = "AnthropicError", !.pc = "done"]

PrepareRequest ==
    /\ call.pc = "prepare"
    /\ \/ call.adapter = "openai" /\ call' = OpenAIPrepareRequest(call)
       \/ /\ call.adapter = "anthropic"
          /\ \E client_accepts \in BOOLEAN :
                call' = AnthropicPrepareRequest(call, client_accepts)
    /\ UNCHANGED <<run, twin, detector_vars, ctx>>

\* openai_adapter.py 123-146: one post; a transport error goes to the callback
\* and is raised again; a response goes to the callback before raise_for_status
OpenAIInvoke(c, outcome) ==
    LET sent == [c EXCEPT !.round_trips = Append(@, outcome), !.pc = "done"]
    IN  IF outcome = "connection_error"
        THEN [sent EXCEPT !.callbacks =
                              IF c.api_response_callback
                              THEN Append(@, Callback("request", "none", "HTTPError"))
                              ELSE @,
                          !.result = "HTTPError"]
        ELSE [sent EXCEPT !.callbacks =
                              IF c.api_response_callback
                              THEN Append(@, Callback("request", "response", "none"))
                              ELSE @,
                          !.result = IF outcome = "ok" THEN "returned"
                                     ELSE "HTTPStatusError"]

\* anthropic_adapter.py 98-122, one round trip of the create call of 102: the
\* client sends a failed request again while it has retries left (150); the
\* error it gives up with goes to the callback and is raised again
AnthropicRoundTrip(c, outcome) ==
    LET sent == [c EXCEPT !.round_trips = Append(@, outcome)]
    IN  IF outcome \in Retryable /\ Len(c.round_trips) < MAX_RETRIES
        THEN [sent EXCEPT !.pc = "ready"]
        ELSE IF outcome = "ok"
        THEN [sent EXCEPT !.callbacks =
                              IF c.api_response_callback
                              THEN Append(@, Callback("request", "response", "none"))
                              ELSE @,
                          !.result = "returned", !.pc = "done"]
        ELSE [sent EXCEPT !.callbacks =
                              IF c.api_response_callback
                              THEN Append(@, Callback("request",
                                                      IF outcome = "connection_error"
                                                      THEN "none" ELSE "response",
                                                      RaisedFor("anthropic", outcome)))
                              ELSE @,
                          !.result = RaisedFor("anthropic", outcome), !.pc = "done"]

InvokeRoundTrip ==
    /\ call.pc = "ready"
    /\ \E outcome \in RoundTripOutcomes :
          call' = IF call.adapter = "openai" THEN OpenAIInvoke(call, outcome)
                  ELSE AnthropicRoundTrip(call, outcome)
    /\ UNCHANGED <<run, twin, detector_vars, ctx>>

NextInvoke == PrepareRequest \/ InvokeRoundTrip

SpecInvoke == InitInvoke /\ [][NextInvoke]_vars

---------------------------------------------------------------------------
(* providers/openai_adapter.py: parse_response.  A JSON value is its kind  *)
(* and what it holds: a map its keys and values in turn, a list its items, *)
(* a string its text; None and a missing key are the value of kind none.   *)

JNone == [kind |-> "none", v |-> <<>>]
JMap(v) == [kind |-> "map", v |-> v]
JList(v) == [kind |-> "list", v |-> v]
JStr(text) == [kind |-> "str", v |-> <<text>>]

\* Python's truth value: None, "", {} and [] are false
Truthy(value) == IF value.kind = "str" THEN value.v # <<"">> ELSE value.v # <<>>

Keys(value) == {value.v[i] : i \in {j \in DOMAIN value.v : j % 2 = 1}}

TEXT_ARGS_LS == "{\"command\": \"ls\"}"
TEXT_ARGS_CLICK == "{\"action\": \"left_click\"}"
TEXT_ARGS_LIST == "[1]"
TEXT_ARGS_BROKEN == "{oops"

\* json.loads: the value of a text, or JSONDecodeError (ok is FALSE)
JsonLoads(text) ==
    CASE text = "{}" -> [ok |-> TRUE, value |-> JMap(<<>>)]
      [] text = TEXT_ARGS_LS -> [ok |-> TRUE, value |-> JMap(<<"command", "ls">>)]
      [] text = TEXT_ARGS_CLICK -> [ok |-> TRUE, value |-> JMap(<<"action", "left_click">>)]
      [] text = TEXT_ARGS_LIST -> [ok |-> TRUE, value |-> JList(<<"1">>)]
      [] OTHER -> [ok |-> FALSE, value |-> JNone]

\* a JSON object as _tool_block_to_segment reads it: block.get(key) for the
\* keys it asks for; function is the nested object, if there is one
NoFunction == [present |-> FALSE, name |-> "", arguments |-> JNone, parameters |-> JNone]

JsonBlock(type, name, arguments, id) ==
    [type |-> type, name |-> name, tool_name |-> "", function |-> NoFunction,
     arguments |-> arguments, parameters |-> JNone, id |-> id]

CONTENT_TEXT == "Hi there!"
CONTENT_BROKEN == "{\"type\":\"function\","
CONTENT_NOTE == "{\"type\":\"text\",\"text\":\"done\"}"
CONTENT_FUNCTION == "{\"type\":\"function\",\"name\":\"bash\",\"arguments\":{\"command\":\"ls\"}}"
CONTENT_TOOL_CALL == "{\"type\":\"tool_call\",\"id\":\"c9\",\"name\":\"computer\",\"arguments\":\"{\\\"action\\\": \\\"left_click\\\"}\"}"
CONTENT_NO_ARGS == "{\"type\":\"function\",\"name\":\"bash\",\"arguments\":{}}"
CONTENT_NESTED == "{\"type\":\"function\",\"function\":{\"name\":\"bash\",\"arguments\":\"{\\\"command\\\": \\\"ls\\\"}\"}}"
CONTENT_UNNAMED == "{\"type\":\"function\",\"parameters\":{\"command\":\"ls\"}}"
CONTENT_LIST_ARGS == "{\"type\":\"function\",\"name\":\"bash\",\"arguments\":\"[1]\"}"
CONTENT_ARRAY == "[{\"type\":\"function\",\"name\":\"bash\",\"arguments\":{\"command\":\"ls\"}},{\"type\":\"text\",\"text\":\"done\"}]"

Contents ==
    {"", CONTENT_TEXT, CONTENT_BROKEN, CONTENT_NOTE, CONTENT_FUNCTION, CONTENT_TOOL_CALL,
     CONTENT_NO_ARGS, CONTENT_NESTED, CONTENT_UNNAMED, CONTENT_LIST_ARGS, CONTENT_ARRAY}

\* 236-242: whether the content starts with { or [, and what json.loads makes
\* of it: its objects, one for an object and one per item for an array
ContentJson(content) ==
    LET ls == JMap(<<"command", "ls">>)
        object(block) == [json |-> TRUE, is_list |-> FALSE, blocks |-> <<block>>]
    IN  CASE content = CONTENT_NOTE -> object(JsonBlock("text", "", JNone, ""))
          [] content = CONTENT_FUNCTION -> object(JsonBlock("function", "bash", ls, ""))
          [] content = CONTENT_TOOL_CALL ->
                 object(JsonBlock("tool_call", "computer", JStr(TEXT_ARGS_CLICK), "c9"))
          [] content = CONTENT_NO_ARGS -> object(JsonBlock("function", "bash", JMap(<<>>), ""))
          [] content = CONTENT_NESTED ->
                 object([JsonBlock("function", "", JNone, "") EXCEPT
                            !.function = [present |-> TRUE, name |-> "bash",
                                          arguments |-> JStr(TEXT_ARGS_LS),
                                          parameters |-> JNone]])
          [] content = CONTENT_UNNAMED ->
                 object([JsonBlock("function", "", JNone, "") EXCEPT !.parameters = ls])
          [] content = CONTENT_LIST_ARGS ->
                 object(JsonBlock("function", "bash", JStr(TEXT_ARGS_LIST), ""))
          [] content = CONTENT_ARRAY ->
                 [json |-> TRUE, is_list |-> TRUE,
                  blocks |-> <<JsonBlock("function", "bash", ls, ""),
                               JsonBlock("text", "", JNone, "")>>]
          [] OTHER -> [json |-> FALSE, is_list |-> FALSE, blocks |-> <<>>]

Or(a, b) == IF Truthy(a) THEN a ELSE b

\* 416-435
InferToolName(payload) ==
    LET given == Or(payload.parameters, Or(payload.arguments, JMap(<<>>)))
        params == IF given.kind = "str"
                  THEN (IF JsonLoads(given.v[1]).ok THEN JsonLoads(given.v[1]).value
                        ELSE JMap(<<>>))
                  ELSE given
    IN  IF params.kind # "map" THEN ""
        ELSE IF Keys(params) \cap {"action", "coordinate", "scroll_amount",
                                   "scroll_direction"} # {}
        THEN "computer"
        ELSE IF {"path", "command"} \subseteq Keys(params) THEN "str_replace_editor"
        ELSE IF "command" \in Keys(params) THEN "bash"
        ELSE ""

\* 279-285: a string is decoded, and kept under "raw" if it does not decode;
\* what is neither a string nor a map becomes {}
DecodeBlockArguments(args) ==
    IF args.kind = "str"
    THEN (IF JsonLoads(args.v[1]).ok THEN JsonLoads(args.v[1]).value
          ELSE JMap(<<"raw", args.v[1]>>))
    ELSE IF args.kind # "map" THEN JMap(<<>>)
    ELSE args

\* 254-288; n counts the uuid4() calls made so far; segments is empty for None
ToolBlockToSegment(block, n) ==
    LET tool_payload == IF block.function.present THEN block.function ELSE block
        named == IF block.name # "" THEN block.name
                 ELSE IF block.tool_name # "" THEN block.tool_name
                 ELSE tool_payload.name
        tool_name == IF named # "" THEN named ELSE InferToolName(tool_payload)
        own == IF block.arguments.kind # "none" THEN block.arguments ELSE block.parameters
        args == IF own.kind # "none" THEN own
                ELSE Or(tool_payload.arguments, tool_payload.parameters)
        decoded == DecodeBlockArguments(args)
    IN  IF block.type \notin {"tool_call", "function"} \/ tool_name = ""
        THEN [segments |-> <<>>, n |-> n]
        ELSE [segments |-> <<ToolCallSegment(tool_name, Or(decoded, JMap(<<>>)),
                                             OpenAICallId(block.id, n))>>,
              n |-> IF block.id = "" THEN n + 1 ELSE n]

RECURSIVE ToolBlocksToSegments(_, _)
ToolBlocksToSegments(blocks, n) ==
    IF blocks = <<>> THEN [segments |-> <<>>, n |-> n]
    ELSE LET first == ToolBlockToSegment(Head(blocks), n)
             rest == ToolBlocksToSegments(Tail(blocks), first.n)
         IN  [segments |-> first.segments \o rest.segments, n |-> rest.n]

\* a reading of the content that takes arrays only
MaybeToolCallsFromContent_ArraysOnly(content, n) ==
    IF ContentJson(content).is_list THEN ToolBlocksToSegments(ContentJson(content).blocks, n)
    ELSE [segments |-> <<>>, n |-> n]

\* 234-251
MaybeToolCallsFromContent(content, n) ==
    IF ~ContentJson(content).json THEN [segments |-> <<>>, n |-> n]
    ELSE ToolBlocksToSegments(ContentJson(content).blocks, n)

\* 181-193 and 197-208: the segment of one structured call; json.loads raises
\* TypeError when it is given an object instead of a text
StructuredCall(function, id, n) ==
    LET raw_args == Or(function.arguments, JStr("{}"))
        arguments == IF JsonLoads(raw_args.v[1]).ok THEN JsonLoads(raw_args.v[1]).value
                     ELSE JMap(<<"raw", raw_args.v[1]>>)
    IN  IF raw_args.kind # "str" THEN [ok |-> FALSE, segments |-> <<>>, n |-> n]
        ELSE [ok |-> TRUE,
              segments |-> <<ToolCallSegment(function.name, Or(arguments, JMap(<<>>)),
                                             OpenAICallId(id, n))>>,
              n |-> IF id = "" THEN n + 1 ELSE n]

RECURSIVE StructuredCalls(_, _)
StructuredCalls(tool_calls, n) ==
    IF tool_calls = <<>> THEN [ok |-> TRUE, segments |-> <<>>, n |-> n]
    ELSE LET first == StructuredCall(Head(tool_calls).function, Head(tool_calls).id, n)
             rest == StructuredCalls(Tail(tool_calls), first.n)
         IN  [ok |-> first.ok /\ rest.ok, segments |-> first.segments \o rest.segments,
              n |-> rest.n]

\* 148-227, for a response with choices whose content is a string or None:
\* the segments of the assistant message, or the TypeError of json.loads
ParseResponse(message_payload) ==
    LET content == message_payload.content
        tool_segments == MaybeToolCallsFromContent(content.v[1], 0)
        from_content ==
            IF content.kind # "str" THEN [segments |-> <<>>, n |-> 0]
            ELSE IF tool_segments.segments # <<>> THEN tool_segments
            ELSE IF content.v[1] # "" THEN [segments |-> <<TextSegment(content.v[1])>>, n |-> 0]
            ELSE [segments |-> <<>>, n |-> 0]
        from_array == StructuredCalls(message_payload.tool_calls, from_content.n)
        function_call == message_payload.function_call
        from_legacy ==
            IF function_call.present
            THEN StructuredCall(function_call, "", from_array.n)
            ELSE [ok |-> TRUE, segments |-> <<>>, n |-> from_array.n]
    IN  IF from_array.ok /\ from_legacy.ok
        THEN [ok |-> TRUE, error |-> "",
              segments |-> from_content.segments \o from_array.segments
                           \o from_legacy.segments]
        ELSE [ok |-> FALSE, error |-> "TypeError", segments |-> <<>>]

---------------------------------------------------------------------------
(* SpecParse: parse_response of the OpenAI adapter on one response.        *)

StructuredEntry(id, name, arguments) ==
    [id |-> id, function |-> [name |-> name, arguments |-> arguments]]

\* the entries a tool_calls array may hold: arguments as a JSON text of a map,
\* of a list, a text that is no JSON, no arguments, and arguments as an object
ToolCallEntries ==
    {StructuredEntry("c1", "bash", JStr(TEXT_ARGS_LS)),
     StructuredEntry("", "computer", JStr(TEXT_ARGS_BROKEN)),
     StructuredEntry("c3", "bash", JStr(TEXT_ARGS_LIST)),
     StructuredEntry("c4", "bash", JNone),
     StructuredEntry("c5", "bash", JMap(<<"command", "ls">>))}

\* a missing tool_calls key reads as the empty array (179)
MessagePayloads ==
    {[content |-> c, tool_calls |-> calls, function_call |-> f] :
        c \in {JNone} \cup {JStr(text) : text \in Contents},
        calls \in SeqsUpTo(ToolCallEntries, MaxToolCalls),
        f \in {[present |-> FALSE, name |-> "", arguments |-> JNone],
               [present |-> TRUE, name |-> "bash", arguments |-> JStr(TEXT_ARGS_LS)]}}

InitParse ==
    /\ run = IdleRun
    /\ twin = IdleRun
    /\ recent_tool_calls = <<>>
    /\ max_repeated = 0
    /\ detection = NoLoop
    /\ turn_calls = <<>>
    /\ ctx = [pc |-> "idle"]
    /\ \E payload \in MessagePayloads :
          call = [pc |-> "response", payload |-> payload]

Parse ==
    /\ call.pc = "response"
    /\ call' = [pc |-> "parsed", payload |-> call.payload,
                message |-> ParseResponse(call.payload)]
    /\ UNCHANGED <<run, twin, detector_vars, ctx>>

SpecParse == InitParse /\ [][Parse]_vars

---------------------------------------------------------------------------
(* prepare_request of the two adapters: the transcript as request messages. *)

ThinkingSegment(content) == [type |-> "thinking", content |-> content]

ToolResultSegment(call_id, output_text) ==
    [type |-> "tool_result", call_id |-> call_id, output_text |-> output_text]

ConversationMessage(role, segments) == [role |-> role, segments |-> segments]

\* json.dumps of the argument maps of the transcripts
JsonDumps(value) ==
    CASE value = JMap(<<>>) -> "{}"
      [] value = JMap(<<"command", "ls">>) -> TEXT_ARGS_LS
      [] value = JMap(<<"action", "left_click">>) -> TEXT_ARGS_CLICK

\* openai_adapter.py 350-361: the non-empty texts, which the code joins
RECURSIVE CollectTextSegments(_)
CollectTextSegments(segments) ==
    IF segments = <<>> THEN <<>>
    ELSE (IF Head(segments).type = "text" /\ Head(segments).text # ""
          THEN <<Head(segments).text>> ELSE <<>>)
         \o CollectTextSegments(Tail(segments))

OpenAIMessage(role, content, tool_calls, tool_call_id) ==
    [role |-> role, content |-> content, tool_calls |-> tool_calls,
     tool_call_id |-> tool_call_id]

\* 400-413 for the tool calls of a message; n counts the uuid4() calls so far
RECURSIVE ToolCallsToOpenAI(_, _)
ToolCallsToOpenAI(segments, n) ==
    IF segments = <<>> THEN [entries |-> <<>>, n |-> n]
    ELSE IF Head(segments).type # "tool_call" THEN ToolCallsToOpenAI(Tail(segments), n)
    ELSE LET segment == Head(segments)
             entry == [id |-> OpenAICallId(segment.call_id, n), type |-> "function",
                       function |->
                           [name |-> segment.tool_name,
                            arguments |->
                                JStr(JsonDumps(Or(segment.arguments, JMap(<<>>))))]]
             rest == ToolCallsToOpenAI(Tail(segments),
                                       IF segment.call_id = "" THEN n + 1 ELSE n)
         IN  [entries |-> <<entry>> \o rest.entries, n |-> rest.n]

\* 364-378 for the tool results of a message (results without images)
RECURSIVE ToolResultsToMessages(_, _)
ToolResultsToMessages(segments, n) ==
    IF segments = <<>> THEN [payload |-> <<>>, n |-> n]
    ELSE IF Head(segments).type # "tool_result"
    THEN ToolResultsToMessages(Tail(segments), n)
    ELSE LET segment == Head(segments)
             message == OpenAIMessage("tool",
                                      IF segment.output_text # ""
                                      THEN <<segment.output_text>> ELSE <<>>,
                                      <<>>, OpenAICallId(segment.call_id, n))
             rest == ToolResultsToMessages(Tail(segments),
                                           IF segment.call_id = "" THEN n + 1 ELSE n)
         IN  [payload |-> <<message>> \o rest.payload, n |-> rest.n]

\* 291-347
RECURSIVE TranscriptToOpenAIMessages(_, _)
TranscriptToOpenAIMessages(messages, n) ==
    IF messages = <<>> THEN <<>>
    ELSE LET message == Head(messages)
             text == CollectTextSegments(message.segments)
             tool_calls == ToolCallsToOpenAI(message.segments, n)
             results == ToolResultsToMessages(message.segments, n)
         IN  IF message.role = "assistant"
             THEN (IF text = <<>> /\ tool_calls.entries = <<>> THEN <<>>
                   ELSE <<OpenAIMessage("assistant", text, tool_calls.entries, "")>>)
                  \o TranscriptToOpenAIMessages(Tail(messages), tool_calls.n)
             ELSE IF message.role = "user"
             THEN (IF text = <<>> THEN <<>> ELSE <<OpenAIMessage("user", text, <<>>, "")>>)
                  \o results.payload
                  \o TranscriptToOpenAIMessages(Tail(messages), results.n)
             ELSE IF message.role = "tool"
             THEN results.payload \o TranscriptToOpenAIMessages(Tail(messages), results.n)
             ELSE (IF text = <<>> THEN <<>> ELSE <<OpenAIMessage("system", text, <<>>, "")>>)
                  \o TranscriptToOpenAIMessages(Tail(messages), n)

\* anthropic_adapter.py 170-199
SegmentToBetaContent(segment) ==
    CASE segment.type = "text" -> [type |-> "text", text |-> segment.text]
      [] segment.type = "thinking" -> [type |-> "thinking", thinking |-> segment.content]
      [] segment.type = "tool_call" ->
             [type |-> "tool_use", name |-> segment.tool_name, input |-> segment.arguments,
              id |-> segment.call_id]
      [] segment.type = "tool_result" ->
             [type |-> "tool_result", tool_use_id |-> segment.call_id,
              content |-> IF segment.output_text # ""
                          THEN <<[type |-> "text", text |-> segment.output_text]>>
                          ELSE <<>>]

\* anthropic_adapter.py 158-167
TranscriptToBetaMessages(messages) ==
    [m \in 1..Len(messages) |->
        [role |-> messages[m].role,
         content |-> [k \in 1..Len(messages[m].segments) |->
                         SegmentToBetaContent(messages[m].segments[k])]]]

\* a conversion that writes a generated id back into the segment that had none
TranscriptAfterPrepare_IdsWrittenBack(messages) ==
    [m \in 1..Len(messages) |->
        [messages[m] EXCEPT !.segments =
            [k \in 1..Len(@) |->
                IF @[k].type \in {"tool_call", "tool_result"} /\ @[k].call_id = ""
                THEN [@[k] EXCEPT !.call_id = UuidPool[1]]
                ELSE @[k]]]]

\* openai_adapter.py 48-121 and anthropic_adapter.py 62-96: what the caller's
\* transcript is after the call; no statement of either assigns to it, to a
\* message or to a segment
TranscriptAfterPrepare(messages) == messages

---------------------------------------------------------------------------
(* SpecEncode: prepare_request on a transcript, and parse_response of the  *)
(* OpenAI adapter on a response that holds the tool_calls just emitted.    *)

CallIds == {"", "c1", "c2"}

TranscriptMessages ==
    LET ls == JMap(<<"command", "ls">>)
        click == JMap(<<"action", "left_click">>)
    IN  {ConversationMessage("user", <<TextSegment("Hello")>>),
         ConversationMessage("assistant", <<ThinkingSegment("hm"), TextSegment("Sure")>>)}
        \cup {ConversationMessage("assistant",
                                  <<TextSegment("Sure"), ToolCallSegment("bash", ls, id)>>) :
                 id \in CallIds}
        \cup {ConversationMessage("assistant",
                                  <<ToolCallSegment("computer", click, id),
                                    ToolCallSegment("bash", JMap(<<>>), "c2")>>) :
                 id \in {"", "c1"}}
        \cup {ConversationMessage(role, <<ToolResultSegment(id, "out")>>) :
                 role \in {"user", "tool"}, id \in CallIds}
        \cup {ConversationMessage("user",
                                  <<ToolResultSegment(id, ""), ToolResultSegment("c2", "out")>>) :
                 id \in {"", "c1"}}

InitEncode ==
    /\ run = IdleRun
    /\ twin = IdleRun
    /\ recent_tool_calls = <<>>
    /\ max_repeated = 0
    /\ detection = NoLoop
    /\ turn_calls = <<>>
    /\ ctx = [pc |-> "idle"]
    /\ \E adapter \in {"anthropic", "openai"},
          transcript \in SeqsUpTo(TranscriptMessages, MaxMessages) :
          call = [pc |-> "transcript", adapter |-> adapter, transcript |-> transcript,
                  before |-> transcript, messages |-> <<>>, message |-> <<>>]

Encode ==
    /\ call.pc = "transcript"
    /\ call' = [call EXCEPT
                   !.messages = IF call.adapter = "openai"
                                THEN TranscriptToOpenAIMessages(call.transcript, 0)
                                ELSE TranscriptToBetaMessages(call.transcript),
                   !.transcript = TranscriptAfterPrepare(call.transcript),
                   !.pc = "prepared"]
    /\ UNCHANGED <<run, twin, detector_vars, ctx>>

\* the tool_calls entries of the request messages, in order
RECURSIVE EmittedCalls(_)
EmittedCalls(payload) ==
    IF payload = <<>> THEN <<>>
    ELSE Head(payload).tool_calls \o EmittedCalls(Tail(payload))

\* a backend that answers with the tool calls it was sent
ParseBack ==
    /\ call.pc = "prepared" /\ call.adapter = "openai"
    /\ call' = [call EXCEPT
                   !.message = ParseResponse([content |-> JNone,
                                              tool_calls |-> EmittedCalls(call.messages),
                                              function_call |->
                                                  [present |-> FALSE, name |-> "",
                                                   arguments |-> JNone]]),
                   !.pc = "parsed_back"]
    /\ UNCHANGED <<run, twin, detector_vars, ctx>>

NextEncode == Encode \/ ParseBack

SpecEncode == InitEncode /\ [][NextEncode]_vars

---------------------------------------------------------------------------
(* SpecImages: _tool_result_to_message on a tool result that has images.   *)

Image(type, media_type, data, url) ==
    [type |-> type, media_type |-> media_type, data |-> data, url |-> url]

\* a key the image dict does not have
NoKey == "(absent)"

IMAGE_PNG == Image("base64", "image/png", "ZmFrZQ==", NoKey)
IMAGE_JPEG == Image("base64", "image/jpeg", "AAAA", NoKey)
IMAGE_NO_MEDIA_TYPE == Image("base64", NoKey, "BBBB", NoKey)
IMAGE_NO_DATA == Image("base64", "image/png", NoKey, NoKey)
IMAGE_URL == Image("url", NoKey, NoKey, "https://example.com/a.png")

Images == {IMAGE_PNG, IMAGE_JPEG, IMAGE_NO_MEDIA_TYPE, IMAGE_NO_DATA, IMAGE_URL}

\* f"data:{media_type};base64,{data}", kept as its parts
DataUri(media_type, data) == <<"data:", media_type, ";base64,", data>>

\* openai_adapter.py 452-475, for image dicts without a nested source
ImageToContentBlock(image) ==
    IF image.type = "base64"
    THEN IF image.data = NoKey
         THEN [ok |-> FALSE, block |-> <<>>]
         ELSE [ok |-> TRUE,
               block |-> [type |-> "image_url",
                          url |-> DataUri(IF image.media_type = NoKey THEN "image/png"
                                          ELSE image.media_type,
                                          image.data)]]
    ELSE IF image.type \in {"url", "image_url"} /\ image.url # NoKey
    THEN [ok |-> TRUE, block |-> [type |-> "image_url", url |-> <<image.url>>]]
    ELSE [ok |-> FALSE, block |-> <<>>]

RECURSIVE ImageBlocks(_)
\* 386-389
ImageBlocks(images) ==
    IF images = <<>> THEN <<>>
    ELSE (IF ImageToContentBlock(Head(images)).ok
          THEN <<ImageToContentBlock(Head(images)).block>> ELSE <<>>)
         \o ImageBlocks(Tail(images))

SystemTag(system_note) == CASE system_note = "note" -> "<system>note</system>"

\* openai_adapter.py 364-397; the text is kept as the parts the code joins
ToolResultToMessage(segment, n) ==
    LET text_parts == (IF segment.system_note # "" THEN <<SystemTag(segment.system_note)>>
                       ELSE <<>>)
                      \o (IF segment.output_text # "" THEN <<segment.output_text>> ELSE <<>>)
        content_blocks == (IF text_parts # <<>>
                           THEN <<[type |-> "text", text |-> text_parts]>> ELSE <<>>)
                          \o ImageBlocks(segment.images)
    IN  [role |-> "tool",
         tool_call_id |-> OpenAICallId(segment.call_id, n),
         content |-> IF segment.images = <<>>
                     THEN [kind |-> "str", v |-> text_parts]
                     ELSE [kind |-> "list",
                           v |-> IF content_blocks = <<>>
                                 THEN <<[type |-> "text", text |-> <<>>]>>
                                 ELSE content_blocks]]

InitImages ==
    /\ run = IdleRun
    /\ twin = IdleRun
    /\ recent_tool_calls = <<>>
    /\ max_repeated = 0
    /\ detection = NoLoop
    /\ turn_calls = <<>>
    /\ ctx = [pc |-> "idle"]
    /\ \E multimodal \in BOOLEAN, call_id \in {"", "c1"}, output_text \in {"", "out"},
          system_note \in {"", "note"}, images \in SeqsUpTo(Images, MaxImages) :
          call = [pc |-> "tool_result",
                  multimodal |-> multimodal,
                  segment |-> [type |-> "tool_result", call_id |-> call_id,
                               output_text |-> output_text, images |-> images,
                               system_note |-> system_note],
                  message |-> <<>>]

\* the backend's multimodal flag is no input of the conversion
EncodeToolResult ==
    /\ call.pc = "tool_result"
    /\ call' = [call EXCEPT !.message = ToolResultToMessage(call.segment, 0),
                            !.pc = "encoded"]
    /\ UNCHANGED <<run, twin, detector_vars, ctx>>

SpecImages == InitImages /\ [][EncodeToolResult]_vars

---------------------------------------------------------------------------
(* SpecRich: parse_response of the Anthropic adapter on the content blocks *)
(* of a response.                                                          *)

\* a content block of a BetaMessage: its class, and the fields it has
ContentBlock(class, type, text, thinking, signature, id, name, input) ==
    [class |-> class, type |-> type, text |-> text, thinking |-> thinking,
     signature |-> signature, id |-> id, name |-> name, input |-> input]

ResponseBlocks ==
    {ContentBlock("BetaTextBlock", "text", "Hi", NoKey, NoKey, NoKey, NoKey, JNone),
     ContentBlock("BetaTextBlock", "text", "", NoKey, NoKey, NoKey, NoKey, JNone),
     ContentBlock("BetaThinkingBlock", "thinking", NoKey, "hm", "sig", NoKey, NoKey, JNone),
     ContentBlock("BetaRedactedThinkingBlock", "redacted_thinking", NoKey, NoKey, NoKey,
                  NoKey, NoKey, JNone),
     ContentBlock("BetaToolUseBlock", "tool_use", NoKey, NoKey, NoKey, "c1", "bash",
                  JMap(<<"command", "ls">>)),
     ContentBlock("BetaToolUseBlock", "tool_use", NoKey, NoKey, NoKey, "c2", "computer",
                  JMap(<<>>)),
     ContentBlock("BetaServerToolUseBlock", "server_tool_use", NoKey, NoKey, NoKey, "s1",
                  "web_search", JMap(<<"query", "q">>))}

RECURSIVE ResponseToParams(_)
\* anthropic_adapter.py 238-256: a text block is kept when its text is not
\* empty; every block of another class is dumped as it is
ResponseToParams(content) ==
    IF content = <<>> THEN <<>>
    ELSE (IF Head(content).class = "BetaTextBlock"
          THEN IF Head(content).text # "" THEN <<Head(content)>>
               ELSE IF Head(content).type = "thinking" THEN <<Head(content)>>
               ELSE <<>>
          ELSE <<Head(content)>>)
         \o ResponseToParams(Tail(content))

\* anthropic_adapter.py 202-235
ContentBlockToSegment(block) ==
    CASE block.type = "text" -> [ok |-> TRUE, segment |-> [type |-> "text", text |-> block.text]]
      [] block.type = "thinking" ->
             [ok |-> TRUE,
              segment |-> [type |-> "thinking", content |-> block.thinking,
                           signature |-> block.signature]]
      [] block.type = "tool_use" ->
             [ok |-> TRUE,
              segment |-> ToolCallSegment(block.name, Or(block.input, JMap(<<>>)), block.id)]
      [] block.type = "tool_result" ->
             [ok |-> TRUE, segment |-> ToolResultSegment(block.id, "")]
      [] OTHER -> [ok |-> FALSE, segment |-> <<>>]

RECURSIVE SegmentsOfBlocks(_)
\* 131-134
SegmentsOfBlocks(content_blocks) ==
    IF content_blocks = <<>> THEN <<>>
    ELSE (IF ContentBlockToSegment(Head(content_blocks)).ok
          THEN <<ContentBlockToSegment(Head(content_blocks)).segment>> ELSE <<>>)
         \o SegmentsOfBlocks(Tail(content_blocks))

\* anthropic_adapter.py 124-145
AnthropicParseResponse(content) == SegmentsOfBlocks(ResponseToParams(content))

InitRich ==
    /\ run = IdleRun
    /\ twin = IdleRun
    /\ recent_tool_calls = <<>>
    /\ max_repeated = 0
    /\ detection = NoLoop
    /\ turn_calls = <<>>
    /\ ctx = [pc |-> "idle"]
    /\ \E content \in SeqsUpTo(ResponseBlocks, MaxBlocks) :
          call = [pc |-> "response", content |-> content, segments |-> <<>>]

ParseRich ==
    /\ call.pc = "response"
    /\ call' = [call EXCEPT !.segments = AnthropicParseResponse(call.content),
                            !.pc = "parsed"]
    /\ UNCHANGED <<run, twin, detector_vars, ctx>>

SpecRich == InitRich /\ [][ParseRich]_vars

---------------------------------------------------------------------------
(* SpecModes: the set-ups of several runs of sampling_loop in one process. *)
(* TOOL_GROUPS_BY_VERSION is a module-level dict of the tools package; the *)
(* tools of a group are a list, which 295-297 copy and remove from.        *)

\* TOOL_GROUPS_BY_VERSION[tool_version].tools when the module is loaded
GROUP_TOOLS == <<"computer", "bash", "str_replace_editor">>

RECURSIVE RemoveComputerTools(_)
\* 295-297: tool_group.tools.remove(tool) for every tool with "computer" in
\* its name
RemoveComputerTools(tools) ==
    IF tools = <<>> THEN <<>>
    ELSE (IF Head(tools) = "computer" THEN <<>> ELSE <<Head(tools)>>)
         \o RemoveComputerTools(Tail(tools))

\* 286-298: the group after the set-up of a run, and the run's tool map
SetupToolGroup(tools, mode) == IF mode = "api" THEN RemoveComputerTools(tools) ELSE tools

ToolMapOfGroup(tools) == {tools[i] : i \in 1..Len(tools)}

InitModes ==
    /\ run = IdleRun
    /\ twin = IdleRun
    /\ recent_tool_calls = <<>>
    /\ max_repeated = 0
    /\ detection = NoLoop
    /\ turn_calls = <<>>
    /\ ctx = [pc |-> "idle"]
    /\ call = [pc |-> "process", tools |-> GROUP_TOOLS, runs |-> <<>>]

\* one more run of sampling_loop with the same tool_version
RunSetUp ==
    /\ call.pc = "process" /\ Len(call.runs) < MaxRuns
    /\ \E exec_mode \in ALLOWED_EXEC_MODES \cup {"desktop"},
          evaluator_exec_mode \in {"", "api", "gui"} :
          LET mode == ActiveExecMode(exec_mode, evaluator_exec_mode)
              tools == SetupToolGroup(call.tools, mode)
          IN  call' = [call EXCEPT
                          !.tools = tools,
                          !.runs = Append(@, [exec_mode |-> exec_mode,
                                              evaluator_exec_mode |-> evaluator_exec_mode,
                                              mode |-> mode,
                                              tool_map |-> ToolMapOfGroup(tools)])]
    /\ UNCHANGED <<run, twin, detector_vars, ctx>>

SpecModes == InitModes /\ [][RunSetUp]_vars

---------------------------------------------------------------------------
(* SpecDetect: _detect_tool_call_loop fed turn by turn, as 538-553 feed it. *)

FeedSignatures == {"A", "B", "C"}

InitDetect ==
    /\ run = IdleRun
    /\ twin = IdleRun
    /\ recent_tool_calls = <<>>
    /\ max_repeated \in 1..MaxThreshold
    /\ detection = NoLoop
    /\ turn_calls = <<>>
    /\ ctx = [pc |-> "idle"]
    /\ call = [pc |-> "idle"]

FeedTurn ==
    \E calls \in SeqsUpTo(FeedSignatures, MaxSegments) \ {<<>>} :
        /\ Len(recent_tool_calls) + Len(calls) <= MaxFeed
        /\ recent_tool_calls' = PushHistory(recent_tool_calls, calls)
        /\ detection' = DetectToolCallLoop(recent_tool_calls', max_repeated)
        /\ turn_calls' = calls
        /\ UNCHANGED <<run, twin, max_repeated, ctx, call>>

NextDetect == FeedTurn

SpecDetect == InitDetect /\ [][NextDetect]_vars

---------------------------------------------------------------------------
(* Reading a message list.                                                 *)

RECURSIVE BlocksOfType(_, _)
BlocksOfType(content, type) ==
    IF content = <<>> THEN <<>>
    ELSE (IF Head(content).type = type THEN <<Head(content)>> ELSE <<>>)
         \o BlocksOfType(Tail(content), type)

ToolUseIds(message) ==
    LET uses == BlocksOfType(message.content, "tool_use")
    IN  [i \in 1..Len(uses) |-> uses[i].id]

ToolResultIds(message) ==
    LET results == BlocksOfType(message.content, "tool_result")
    IN  [i \in 1..Len(results) |-> results[i].tool_use_id]

HasToolUse(message) == message.role = "assistant" /\ ToolUseIds(message) # <<>>

IsToolResultMessage(message) ==
    /\ message.role = "user"
    /\ message.content # <<>>
    /\ \A i \in 1..Len(message.content) : message.content[i].type = "tool_result"

\* the run is between turns or over: no turn is half done
TurnSettled(s) == s.pc \in {"loop_head", "awaiting_model", "returned", "raised"}

Started(s) == s.pc # "idle"

\* the tool calls of the turns, without the save keystroke
RECURSIVE TurnCallIds(_)
TurnCallIds(dispatched) ==
    IF dispatched = <<>> THEN <<>>
    ELSE (IF Head(dispatched).call_id # "auto_save"
          THEN <<Head(dispatched).call_id>> ELSE <<>>)
         \o TurnCallIds(Tail(dispatched))

RECURSIVE AllToolUseIds(_)
AllToolUseIds(messages) ==
    IF messages = <<>> THEN <<>>
    ELSE (IF Head(messages).role = "assistant" THEN ToolUseIds(Head(messages)) ELSE <<>>)
         \o AllToolUseIds(Tail(messages))

---------------------------------------------------------------------------
(* C1 *)

\* C1: once a turn with tool calls is settled, its assistant message is followed
\* by one user message holding one tool_result per tool call, in the order of the
\* calls and with their call ids, and tool_output_callback has been called once
\* per tool call.
C1_ToolResultsFollowEveryToolTurn ==
    (Started(run) /\ TurnSettled(run)) =>
        /\ \A i \in 1..Len(run.messages) :
              HasToolUse(run.messages[i]) =>
                  /\ i < Len(run.messages)
                  /\ IsToolResultMessage(run.messages[i + 1])
                  /\ ToolResultIds(run.messages[i + 1]) = ToolUseIds(run.messages[i])
        /\ run.tool_output_calls = AllToolUseIds(run.messages)

\* the same without the runs that a raising tool ends
C1_HoldsUnlessAToolRaises ==
    (Started(run) /\ TurnSettled(run) /\ run.exit_reason # "tool_error") =>
        /\ \A i \in 1..Len(run.messages) :
              HasToolUse(run.messages[i]) =>
                  /\ i < Len(run.messages)
                  /\ IsToolResultMessage(run.messages[i + 1])
                  /\ ToolResultIds(run.messages[i + 1]) = ToolUseIds(run.messages[i])
        /\ run.tool_output_calls = AllToolUseIds(run.messages)

---------------------------------------------------------------------------
(* C2 *)

\* the tool_use blocks with this id in the assistant messages before message i
MatchingToolUses(messages, i, id) ==
    {<<j, k>> \in (1..(i - 1)) \X (1..(MaxSegments + 2)) :
        /\ messages[j].role = "assistant"
        /\ k <= Len(messages[j].content)
        /\ messages[j].content[k].type = "tool_use"
        /\ messages[j].content[k].id = id}

\* C2: when a model call is issued or the loop returns, every tool_result block
\* answers exactly one tool_use block of an earlier assistant message.
C2_EveryResultMatchesOneCall ==
    (Started(run) /\ run.pc \in {"awaiting_model", "returned"}) =>
        \A i \in 1..Len(run.messages) :
            \A k \in 1..Len(run.messages[i].content) :
                run.messages[i].content[k].type = "tool_result" =>
                    Cardinality(MatchingToolUses(run.messages, i,
                        run.messages[i].content[k].tool_use_id)) = 1

---------------------------------------------------------------------------
(* C3 *)

RefusalMessage ==
    [role |-> "assistant", content |-> <<[type |-> "text", text |-> TEXT_REFUSAL]>>]

\* every response so far was the refusal text, with no tool call
OnlyRefusalsSoFar(s) ==
    \A i \in 1..Len(s.messages) :
        s.messages[i].role = "assistant" => s.messages[i] = RefusalMessage

\* the transcript after n refusals of which the first r were answered by the reminder
RECURSIVE RefusalTranscript(_, _)
RefusalTranscript(n, r) ==
    IF n = 0 THEN InitialMessages
    ELSE RefusalTranscript(n - 1, r) \o <<RefusalMessage>>
         \o (IF n <= r THEN <<ReminderMessage>> ELSE <<>>)

Unbounded(s) == ~s.cfg.can_timeout /\ s.cfg.max_llm_calls = NoLimit

\* every model call so far came back with a response the adapter could parse
EveryCallAnswered(s) ==
    s.exit_reason \notin {"adapter_error", "invoke_error", "parse_error"}

\* the loop has decided to stop on a response that has no tool calls
StoppedOnResponse(s) == s.pc = "auto_save" \/ s.exit_reason = "final"

\* C3: with no timeout and no call cap, a run whose every model call is answered
\* by a refusal appends the reminder after the 1st and the 2nd response and
\* stops on the 3rd without a reminder: 3 model calls are made, and the loop
\* stops on no earlier one.
C3_ThreeCallsOnRefusals ==
    (Started(run) /\ Unbounded(run) /\ EveryCallAnswered(run)
     /\ OnlyRefusalsSoFar(run)) =>
        /\ run.llm_call_count <= MAX_PROVIDER_REFUSALS + 1
        /\ run.invoke_count <= MAX_PROVIDER_REFUSALS + 1
        /\ run.messages = RefusalTranscript(run.llm_call_count, MAX_PROVIDER_REFUSALS)
        /\ (StoppedOnResponse(run) <=> run.llm_call_count = MAX_PROVIDER_REFUSALS + 1)

C3_Witness ==
    /\ Started(run) /\ Unbounded(run) /\ EveryCallAnswered(run)
    /\ OnlyRefusalsSoFar(run)
    /\ run.pc = "returned" /\ run.exit_reason = "final" /\ run.retval = "messages"
    /\ run.llm_call_count = 3
    /\ Len(run.messages) = 6

---------------------------------------------------------------------------
(* C4 *)

IsReminder(message) == message = ReminderMessage

\* the reminders after the last assistant message that has a tool call
RECURSIVE RemindersSinceToolTurn(_)
RemindersSinceToolTurn(messages) ==
    IF messages = <<>> THEN 0
    ELSE IF HasToolUse(Last(messages)) THEN 0
    ELSE (IF IsReminder(Last(messages)) THEN 1 ELSE 0)
         + RemindersSinceToolTurn(SubSeq(messages, 1, Len(messages) - 1))

\* the longest stretch of reminders with no tool-call turn between them
RECURSIVE MaxReminderStretch(_)
MaxReminderStretch(messages) ==
    IF messages = <<>> THEN 0
    ELSE LET before == MaxReminderStretch(SubSeq(messages, 1, Len(messages) - 1))
             here == RemindersSinceToolTurn(messages)
         IN  IF here > before THEN here ELSE before

LastAssistantIsRefusalText(s) ==
    \E i \in 1..Len(s.messages) :
        /\ s.messages[i].role = "assistant"
        /\ \A j \in (i + 1)..Len(s.messages) : s.messages[j].role # "assistant"
        /\ ~HasToolUse(s.messages[i])
        /\ LooksLikeRefusal(s.messages[i].content)

\* C4: a turn with a tool call puts the retry counter back to zero: no stretch of
\* reminders without a tool-call turn is longer than MAX_PROVIDER_REFUSALS, the
\* counter is the number of reminders since the last tool-call turn, and the loop
\* stops on a refusal only after MAX_PROVIDER_REFUSALS reminders since that turn.
C4_ToolTurnResetsRefusalBudget ==
    Started(run) =>
        /\ MaxReminderStretch(run.messages) <= MAX_PROVIDER_REFUSALS
        /\ run.refusal_retries = RemindersSinceToolTurn(run.messages)
        /\ (run.pc = "dispatch" => run.refusal_retries = 0)
        /\ (StoppedOnResponse(run) /\ LastAssistantIsRefusalText(run)) =>
               RemindersSinceToolTurn(run.messages) = MAX_PROVIDER_REFUSALS

\* a refusal was retried, a tool-call turn followed, and the run then stopped on
\* a refusal after the full budget of reminders
C4_Witness ==
    /\ Started(run)
    /\ run.exit_reason = "final" /\ LastAssistantIsRefusalText(run)
    /\ \E i \in 1..Len(run.messages) : HasToolUse(run.messages[i])
    /\ RemindersSinceToolTurn(run.messages) = MAX_PROVIDER_REFUSALS
    /\ \E i \in 1..Len(run.messages) :
          /\ IsReminder(run.messages[i])
          /\ \E j \in (i + 1)..Len(run.messages) : HasToolUse(run.messages[j])

---------------------------------------------------------------------------
(* C5 *)

RECURSIVE WithoutLoopDetection(_)
WithoutLoopDetection(events) ==
    IF events = <<>> THEN <<>>
    ELSE (IF Head(events).kind = "loop_detection" THEN <<>> ELSE <<Head(events)>>)
         \o WithoutLoopDetection(Tail(events))

LoopDetections(s) == Len(s.events) - Len(WithoutLoopDetection(s.events))

\* everything of a run but its threshold and its loop-detection events
Observable(s) ==
    [s EXCEPT !.cfg = [@ EXCEPT !.max_repeated_tool_calls = 0],
              !.events = WithoutLoopDetection(@)]

\* C5: given the same model responses and tool outcomes, a run in which loops
\* are detected and a run in which detection never fires have the same
\* messages, the same tool dispatches in the same order, the same callbacks and
\* the same point and manner of termination; they differ only in the
\* loop-detection events sent to the telemetry sink.
C5_DetectionIsObserveOnly ==
    (Started(run) /\ Started(twin)) =>
        /\ Observable(run) = Observable(twin)
        /\ LoopDetections(twin) = 0

\* a loop was detected in a turn, that turn's tool calls were dispatched all the
\* same, and a further model call was issued after it
C5_Witness ==
    /\ Started(run) /\ Started(twin)
    /\ LoopDetections(run) >= 1
    /\ \E i \in 1..Len(run.events) :
          /\ run.events[i].kind = "loop_detection"
          /\ \E j \in (i + 1)..Len(run.events) : run.events[j].kind = "LLM_QUERY_START"
    /\ Len(run.dispatched) >= 2
    /\ run.pc = "returned"

---------------------------------------------------------------------------
(* C6 *)

\* C6: with threshold 2 and the history fed one signature per turn: after
\* [A,A] and after [A,A,A] a loop is reported; after [A,B,A,B,A,B] a loop is
\* reported as an alternating pattern; after no prefix of [A,B,C,A,B,C] is a
\* loop reported.
C6_DetectorExamples ==
    max_repeated = 2 =>
        /\ recent_tool_calls = <<"A">> => ~detection.is_loop
        /\ recent_tool_calls = <<"A", "A">> => detection.is_loop
        /\ recent_tool_calls = <<"A", "A", "A">> => detection.is_loop
        /\ recent_tool_calls = <<"A", "B", "A", "B", "A", "B">> =>
               detection.is_loop /\ detection.description = "alternating"
        /\ \A n \in 1..5 :
               recent_tool_calls = SubSeq(<<"A", "B", "A", "B", "A", "B">>, 1, n) =>
                   ~detection.is_loop
        /\ \A n \in 1..6 :
               recent_tool_calls = SubSeq(<<"A", "B", "C", "A", "B", "C">>, 1, n) =>
                   ~detection.is_loop

\* the sixth entry of the alternation has been pushed and the loop reported
C6_Witness ==
    /\ max_repeated = 2
    /\ recent_tool_calls = <<"A", "B", "A", "B", "A", "B">>
    /\ Len(turn_calls) = 1
    /\ detection.is_loop

---------------------------------------------------------------------------
(* C7 *)

EndsInAlternation(calls) ==
    /\ Len(calls) >= ALTERNATION_WINDOW
    /\ LET last_six == LastN(calls, ALTERNATION_WINDOW)
       IN  /\ last_six[1] # last_six[2]
           /\ \A i \in 1..ALTERNATION_WINDOW :
                 last_six[i] = last_six[IF i % 2 = 1 THEN 1 ELSE 2]

\* C7: for every threshold, a history whose last 6 entries are X,Y,X,Y,X,Y with
\* X different from Y is reported as a loop in that turn.
C7_AlternationReportedForEveryThreshold ==
    EndsInAlternation(recent_tool_calls) => detection.is_loop

\* what does hold: the alternation is reported when the history is at least as
\* long as the threshold
C7_AlternationReportedWhenLongEnough ==
    (EndsInAlternation(recent_tool_calls) /\ Len(recent_tool_calls) >= max_repeated)
        => detection.is_loop

---------------------------------------------------------------------------
(* C8 *)

RECURSIVE CountEvents(_, _, _)
CountEvents(events, kind, detail) ==
    IF events = <<>> THEN 0
    ELSE (IF Head(events) = Event(kind, detail) THEN 1 ELSE 0)
         + CountEvents(Tail(events), kind, detail)

\* the step in which the except clause of 457-482 handled an error of invoke
InvokeErrorHandled(s, t) ==
    /\ s.pc = "awaiting_model"
    /\ CountEvents(t.events, "LLM_QUERY_END", "error")
         > CountEvents(s.events, "LLM_QUERY_END", "error")

Over(s) == s.pc \in {"returned", "raised"}

\* C8: when adapter.invoke raises one of the errors the loop catches, the loop
\* returns the message list as it was when the call was issued, appends nothing,
\* runs no tool and issues no further model call.
C8_InvokeErrorReturnsTranscript ==
    [][/\ InvokeErrorHandled(run, run') =>
            /\ run'.pc = "returned" /\ run'.retval = "messages"
            /\ run'.exit_reason = "adapter_error"
            /\ run'.messages = run.messages
            /\ run'.messages = run.request
            /\ run'.dispatched = run.dispatched
            /\ run'.invoke_count = run.invoke_count
            /\ run'.llm_call_count = run.llm_call_count
       /\ Over(run) => run' = run]_vars

\* an invoke error ended a run that had already completed a tool-call turn
C8_Witness ==
    /\ Started(run)
    /\ run.pc = "returned" /\ run.exit_reason = "adapter_error"
    /\ run.invoke_count = run.llm_call_count + 1
    /\ run.llm_call_count >= 1
    /\ \E i \in 1..Len(run.messages) : IsToolResultMessage(run.messages[i])
    /\ run.messages = run.request

---------------------------------------------------------------------------
(* C9 *)

\* C9: an adapter error raised while the response is parsed ends the loop by
\* returning the transcript, as an error of invoke does.
C9_ParseErrorReturnsTranscript ==
    (Started(run) /\ run.exit_reason = "parse_error") =>
        run.pc = "returned" /\ run.retval = "messages"

---------------------------------------------------------------------------
(* C10 *)

Failing(execution) == execution.behaviour \in {"ToolError", "Exception"}

ErrorResultFor(s, call_id) ==
    \/ \E i \in 1..Len(s.tool_result_segments) :
          /\ s.tool_result_segments[i].call_id = call_id
          /\ s.tool_result_segments[i].is_error
          /\ s.tool_result_segments[i].output_text # ""
    \/ \E i \in 1..Len(s.messages) : \E k \in 1..Len(s.messages[i].content) :
          /\ s.messages[i].content[k].type = "tool_result"
          /\ s.messages[i].content[k].tool_use_id = call_id
          /\ s.messages[i].content[k].is_error
          /\ s.messages[i].content[k].content # <<>>

\* a tool call of a model response, run by the local collection
LocalToolCall(execution) ==
    execution.via = "local" /\ execution.call_id # "auto_save"

\* C10: a tool call whose execution fails yields an error tool_result for its
\* call id, the turn goes on, and the run is not ended by the failure; stated
\* here for the tools of the local collection.
C10_FailingToolYieldsErrorResult ==
    Started(run) =>
        \A i \in 1..Len(run.dispatched) :
            (Failing(run.dispatched[i]) /\ LocalToolCall(run.dispatched[i])) =>
                /\ ErrorResultFor(run, run.dispatched[i].call_id)
                /\ run.pc # "raised"

\* what does hold: a tool that raises ToolError, and a call that returns an
\* error result, yield an error tool_result
C10_ToolErrorYieldsErrorResult ==
    Started(run) =>
        \A i \in 1..Len(run.dispatched) :
            (run.dispatched[i].behaviour = "ToolError" /\ LocalToolCall(run.dispatched[i]))
                => ErrorResultFor(run, run.dispatched[i].call_id)

---------------------------------------------------------------------------
(* C11 *)

HasResultFor(messages, call_id) ==
    \E m \in 1..Len(messages) :
        \E k \in 1..Len(ToolResultIds(messages[m])) :
            ToolResultIds(messages[m])[k] = call_id

\* C11: on every exit of the loop, the result of each tool call that has
\* completed is in the message list as a tool_result with the call's id.
C11_CompletedResultsSurviveEveryExit ==
    (Started(run) /\ Over(run)) =>
        \A i \in 1..Len(run.tool_output_calls) :
            HasResultFor(run.messages, run.tool_output_calls[i])

\* what does hold: the same on every exit but the one made by a tool that raises
C11_ResultsSurviveUnlessAToolRaises ==
    (Started(run) /\ Over(run) /\ run.exit_reason # "tool_error") =>
        \A i \in 1..Len(run.tool_output_calls) :
            HasResultFor(run.messages, run.tool_output_calls[i])

---------------------------------------------------------------------------
(* C15 *)

\* the tool executions of the model's tool calls, without the save keystroke
RECURSIVE TurnCalls(_)
TurnCalls(dispatched) ==
    IF dispatched = <<>> THEN <<>>
    ELSE (IF Head(dispatched).call_id = "auto_save" THEN <<>> ELSE <<Head(dispatched)>>)
         \o TurnCalls(Tail(dispatched))

RECURSIVE AllBlocksOfType(_, _)
AllBlocksOfType(messages, type) ==
    IF messages = <<>> THEN <<>>
    ELSE BlocksOfType(Head(messages).content, type)
         \o AllBlocksOfType(Tail(messages), type)

NoToolRaised(s) ==
    \A i \in 1..Len(TurnCalls(s.dispatched)) :
        TurnCalls(s.dispatched)[i].behaviour # "Exception"

\* C15: each tool call is executed once, with its name and arguments, by the
\* local tool when the name is in the local tool map and by the remote
\* provider's call_tool when it is not; what the remote call gives back is the
\* content of the call's tool_result.
C15_LocalFirstThenRemoteOnce ==
    Started(run) =>
        /\ \A i \in 1..Len(run.dispatched) :
              run.dispatched[i].via =
                  (IF run.dispatched[i].name \in run.tool_map THEN "local" ELSE "remote")
        /\ run.pc \in {"loop_head", "awaiting_model", "returned"} =>
              LET calls == TurnCalls(run.dispatched)
                  uses == AllBlocksOfType(run.messages, "tool_use")
                  results == AllBlocksOfType(run.messages, "tool_result")
              IN  /\ Len(calls) = Len(uses) /\ Len(results) = Len(uses)
                  /\ \A k \in 1..Len(calls) :
                        /\ calls[k].name = uses[k].name
                        /\ calls[k].input = uses[k].input
                        /\ calls[k].call_id = uses[k].id
                        /\ results[k].tool_use_id = uses[k].id
                        /\ (calls[k].via = "remote" /\ calls[k].behaviour = "returns") =>
                              /\ ~results[k].is_error
                              /\ results[k].content = <<[type |-> "text", text |-> "remote"]>>
                        /\ (calls[k].via = "remote" /\ calls[k].behaviour = "ToolError") =>
                              /\ results[k].is_error
                              /\ results[k].content = <<[type |-> "text", text |-> "remote boom"]>>

\* one response asked for the computer tool and for a remote tool: the first ran
\* locally, the second went to the remote provider, and both results are in the
\* messages
C15_Witness ==
    /\ Started(run) /\ run.pc = "returned" /\ NoToolRaised(run)
    /\ \E i \in 1..Len(run.dispatched) : \E j \in 1..Len(run.dispatched) :
          /\ i < j
          /\ run.dispatched[i].name = "computer" /\ run.dispatched[i].via = "local"
          /\ run.dispatched[j].name = "mcp_tool" /\ run.dispatched[j].via = "remote"
          /\ run.dispatched[j].behaviour = "returns"
    /\ Len(AllBlocksOfType(run.messages, "tool_result")) >= 2

---------------------------------------------------------------------------
(* C16 *)

RECURSIVE SaveKeystrokes(_)
SaveKeystrokes(dispatched) ==
    IF dispatched = <<>> THEN <<>>
    ELSE (IF Head(dispatched).call_id = "auto_save" THEN <<Head(dispatched)>> ELSE <<>>)
         \o SaveKeystrokes(Tail(dispatched))

EndsWithPlainAssistantMessage(messages) ==
    /\ Last(messages).role = "assistant"
    /\ ~HasToolUse(Last(messages))

\* C16: a response with no tool calls that is not retried as a refusal is
\* appended and the loop returns the messages; on the way the save keystroke is
\* issued once if the computer tool is in the local tool map and not at all
\* otherwise; a failing save appends nothing and is not raised; no other turn
\* issues a save keystroke.
C16_SaveOnceOnFinalTurn ==
    /\ [](Started(run) =>
            /\ (run.pc = "auto_save" \/ run.exit_reason = "final") =>
                    EndsWithPlainAssistantMessage(run.messages)
            /\ Len(SaveKeystrokes(run.dispatched)) =
                    (IF run.exit_reason = "final" /\ "computer" \in run.tool_map
                     THEN 1 ELSE 0)
            /\ \A i \in 1..Len(SaveKeystrokes(run.dispatched)) :
                   /\ SaveKeystrokes(run.dispatched)[i].name = "computer"
                   /\ SaveKeystrokes(run.dispatched)[i].input = SAVE_KEYSTROKE
                   /\ SaveKeystrokes(run.dispatched)[i].via = "local")
    /\ [][run.pc = "auto_save" =>
              /\ run'.pc = "returned" /\ run'.retval = "messages"
              /\ run'.exit_reason = "final"
              /\ run'.messages = run.messages]_vars

\* the save keystroke was issued, it raised, and the loop returned the messages
C16_Witness ==
    /\ Started(run) /\ run.pc = "returned" /\ run.exit_reason = "final"
    /\ run.retval = "messages"
    /\ Len(SaveKeystrokes(run.dispatched)) = 1
    /\ Last(run.dispatched).call_id = "auto_save"
    /\ Last(run.dispatched).behaviour = "Exception"
    /\ run.refusal_retries >= 1

---------------------------------------------------------------------------
(* C17 *)

\* C17: mcp_client.cleanup() has been called once when the loop has been left,
\* whichever way it was left, and not at all before.
C17_CleanupOnceOnEveryExit ==
    Started(run) => run.cleanup_count = (IF Over(run) THEN 1 ELSE 0)

\* a tool raised in the middle of a turn, and cleanup has been called
C17_Witness ==
    /\ Started(run) /\ run.pc = "raised" /\ run.exit_reason = "tool_error"
    /\ run.cleanup_count = 1
    /\ run.llm_call_count >= 1

---------------------------------------------------------------------------
(* C18 *)

\* C18: by the first model call, connect_to_server has been called once for
\* each configured server, in every execution mode.
C18_EveryServerConnectedBeforeFirstCall ==
    (Started(run) /\ run.invoke_count >= 1) => run.connects = run.cfg.mcp_servers

\* what does hold: the same in the modes other than gui
C18_ConnectedUnlessGui ==
    (Started(run) /\ run.invoke_count >= 1
     /\ ActiveExecMode(run.cfg.exec_mode, run.cfg.evaluator_exec_mode) # "gui")
        => run.connects = run.cfg.mcp_servers

---------------------------------------------------------------------------
(* C19 *)

\* everything of a run but its sink and what the sink has recorded
BesidesTelemetry(s) ==
    [s EXCEPT !.cfg = [@ EXCEPT !.sink = "ok"], !.events = <<>>]

\* C19: a run whose sink raises at every record_event and a run whose sink
\* records, given the same responses and tool outcomes, have the same messages,
\* the same tool dispatches and callbacks, and end at the same point with the
\* same return value; the exception of the sink is never the run's exit.
C19_SinkFailureChangesNothing ==
    (Started(run) /\ Started(twin) /\ run.cfg.sink = "failing") =>
        /\ BesidesTelemetry(run) = BesidesTelemetry(twin)
        /\ run.events = <<>>

\* a run with a failing sink has gone through a model call, a tool call and a
\* detected loop, each of which its twin has recorded, and has returned
C19_Witness ==
    /\ Started(run) /\ Started(twin) /\ run.cfg.sink = "failing"
    /\ run.pc = "returned" /\ run.exit_reason = "final"
    /\ Len(TurnCalls(run.dispatched)) >= 1
    /\ Len(SaveKeystrokes(run.dispatched)) = 1
    /\ LoopDetections(twin) >= 1
    /\ CountEvents(twin.events, "LLM_QUERY_END", "success") >= 1
    /\ CountEvents(twin.events, "TOOL_CALL_START", "computer") >= 1

---------------------------------------------------------------------------
(* C20 *)

\* C20: when a model call is issued, is_timeout() has been polled twice in
\* each iteration so far: at the loop head and again before the call.
C20_TimeoutPolledTwicePerModelCall ==
    (Started(run) /\ run.pc = "awaiting_model") =>
        run.timeout_polls = 2 * run.invoke_count

\* what does hold: one poll for each model call, at the loop head
C20_TimeoutPolledOncePerIteration ==
    (Started(run) /\ run.pc = "awaiting_model") =>
        run.timeout_polls = run.invoke_count

---------------------------------------------------------------------------
(* C13 *)

Min(a, b) == IF a <= b THEN a ELSE b

\* a message list with the images of its tool results taken out
WithoutToolResultImages(messages) == FilterMessages(messages, Len(ToolResultImages(messages)))

\* C13: with K = images_to_keep >= 1, C = min_removal_threshold >= 1 and T
\* images in the tool results, the filter removes max(0, (T-K) - ((T-K) mod C))
\* images; at least min(T, K) and fewer than K + C remain; those that remain
\* are the most recent ones in their order, and nothing else is changed.
C13_FilterRemovesOldestInChunks ==
    ctx.pc = "filtered" =>
        LET before == ToolResultImages(ctx.before)
            after == ToolResultImages(ctx.messages)
            T == Len(before)
            K == ctx.images_to_keep
            C == ctx.min_removal_threshold
            removed == IF T >= K THEN (T - K) - ((T - K) % C) ELSE 0
        IN  /\ Len(after) = T - removed
            /\ Len(after) >= Min(T, K)
            /\ Len(after) < K + C
            /\ after = SubSeq(before, removed + 1, T)
            /\ WithoutToolResultImages(ctx.messages) = WithoutToolResultImages(ctx.before)

\* six images, two to keep, chunks of three: three are removed, from two tool
\* results, and the last three remain
C13_Witness ==
    /\ ctx.pc = "filtered"
    /\ ctx.images_to_keep = 2 /\ ctx.min_removal_threshold = 3
    /\ Len(ToolResultImages(ctx.before)) = 6
    /\ Len(ToolResultImages(ctx.messages)) = 3
    /\ ToolResultImages(ctx.messages)[1].data = 4

---------------------------------------------------------------------------
(* C12 *)

\* the positions of the user messages of a list
UserMessages(messages) == {i \in DOMAIN messages : messages[i].role = "user"}

Marked(message) == \E b \in DOMAIN message.content : message.content[b].cache_control

\* the positions of the n most recent user messages
MostRecentUsers(messages, n) ==
    {i \in UserMessages(messages) :
        Cardinality({j \in UserMessages(messages) : j > i}) < n}

MarkersAreTheThreeMostRecent(messages) ==
    LET marked == {i \in UserMessages(messages) : Marked(messages[i])}
    IN  /\ Cardinality(marked) <= 3
        /\ marked = MostRecentUsers(messages, 3)

ContextManaged == ctx.pc = "awaiting" /\ ctx.provider = "anthropic"

\* C12: after _inject_prompt_caching in an iteration, on every message list
\* that runs of sampling_loop and the host's messages between them produce, at
\* most 3 user messages are marked, they are the 3 most recent ones, and no
\* older user message is marked.
C12_MarkersOnThreeMostRecentUsers ==
    ContextManaged => MarkersAreTheThreeMostRecent(ctx.messages)

\* C12, where every run so far reached a model call: then each iteration found
\* one user message more than the one before
C12_HoldsWhenEveryRunInjects ==
    ContextManaged /\ ctx.runs_without_a_call = 0
        => MarkersAreTheThreeMostRecent(ctx.messages)

---------------------------------------------------------------------------
(* C14 *)

RequestBuiltWithLimit == ctx.pc = "awaiting" /\ ctx.only_n > 0

\* C14: with only_n_most_recent_images = N > 0, for every provider, the list a
\* request is built from holds fewer than 2N tool-result images.
C14_FewerThanTwiceTheLimit ==
    RequestBuiltWithLimit => Len(ToolResultImages(ctx.messages)) < 2 * ctx.only_n

\* C14 for the providers without prompt caching
C14_HoldsWithoutPromptCaching ==
    RequestBuiltWithLimit /\ ctx.provider # "anthropic"
        => Len(ToolResultImages(ctx.messages)) < 2 * ctx.only_n

---------------------------------------------------------------------------
(* C21 *)

\* the ids of the tool_use blocks of a message list, in order
ToolUseIdsIn(messages) ==
    [i \in 1..Len(AllBlocksOfType(messages, "tool_use")) |->
        AllBlocksOfType(messages, "tool_use")[i].id]

\* the ids of its tool_result blocks, in order
ToolResultIdsIn(messages) ==
    [i \in 1..Len(AllBlocksOfType(messages, "tool_result")) |->
        AllBlocksOfType(messages, "tool_result")[i].tool_use_id]

\* the ids of the tool calls of the turns that have been executed, in order
ExecutedIds(s) ==
    [i \in 1..Len(TurnCalls(s.dispatched)) |-> TurnCalls(s.dispatched)[i].call_id]

IsPrefix(short, long) ==
    Len(short) <= Len(long) /\ short = SubSeq(long, 1, Len(short))

\* C21: in a run at most one model call is in flight; while it is, no tool is
\* executed; a request is built only when every tool call of the turns before it
\* has been executed and has its result in the message list; and the tool calls
\* are executed one at a time in the order of their segments.
C21_OneModelCallAndToolsAwaited ==
    /\ [](run.pc = "awaiting_model" =>
             /\ ExecutedIds(run) = ToolUseIdsIn(run.request)
             /\ ToolResultIdsIn(run.request) = ToolUseIdsIn(run.request))
    /\ [](Started(run) => IsPrefix(ExecutedIds(run), ToolUseIdsIn(run.messages)))
    /\ [][run'.invoke_count # run.invoke_count =>
             /\ run.pc = "loop_head" /\ run'.pc = "awaiting_model"
             /\ run'.invoke_count = run.invoke_count + 1]_vars
    /\ [][run.pc = "awaiting_model" =>
             run'.invoke_count = run.invoke_count /\ run'.dispatched = run.dispatched]_vars
    /\ [][/\ Len(run'.dispatched) <= Len(run.dispatched) + 1
          /\ IsPrefix(run.dispatched, run'.dispatched)]_vars

\* the second request of a run, built after a turn of two tool calls
C21_Witness ==
    /\ run.pc = "awaiting_model"
    /\ run.invoke_count = 2
    /\ Len(ExecutedIds(run)) = 2
    /\ ToolResultIdsIn(run.request) = ExecutedIds(run)

---------------------------------------------------------------------------
(* C22 *)

\* C22: with max_llm_calls = N a run issues at most N model calls, those
\* answered by a refusal included, and then ends, whatever the model answers.
C22_BudgetBoundsCallsAndRunEnds ==
    /\ []((Started(run) /\ run.cfg.max_llm_calls # NoLimit) =>
              run.invoke_count <= run.cfg.max_llm_calls)
    /\ <>Over(run)

\* a run that spent a budget of 3, one call of it on a refusal, and stopped
C22_Witness ==
    /\ Over(run) /\ run.exit_reason = "budget"
    /\ run.cfg.max_llm_calls = 3 /\ run.invoke_count = 3
    /\ \E i \in 1..Len(run.messages) : IsReminder(run.messages[i])
    /\ Len(TurnCalls(run.dispatched)) > 0

---------------------------------------------------------------------------
(* C23 *)

InvokeOver == call.pc = "done" /\ call.round_trips # <<>>

\* C23: one call of invoke is one round trip to the backend, for both
\* adapters: a failed request is not sent again by the adapter or its client.
C23_OneRoundTripPerInvoke == InvokeOver => Len(call.round_trips) = 1

\* C23 for the adapter of the OpenAI-compatible backends
C23_OneRoundTripOpenAI ==
    (InvokeOver /\ call.adapter = "openai") => Len(call.round_trips) = 1

---------------------------------------------------------------------------
(* C24 *)

InvokeFailed ==
    /\ InvokeOver
    /\ call.result \in {"HTTPError", "HTTPStatusError", "APIConnectionError",
                        "APIStatusError"}

\* C24: when invoke fails with a transport error or a non-success status and a
\* callback was supplied, the callback is called once for the call, with the
\* error that is then raised.
C24_CallbackGetsTheErrorOnce ==
    (InvokeFailed /\ call.api_response_callback) =>
        /\ Len(call.callbacks) = 1
        /\ call.callbacks[1].error = call.result

\* C24 without the non-success status of an OpenAI-compatible backend
C24_HoldsButForOpenAIStatus ==
    (InvokeFailed /\ call.api_response_callback /\ call.result # "HTTPStatusError") =>
        /\ Len(call.callbacks) = 1
        /\ call.callbacks[1].error = call.result

---------------------------------------------------------------------------
(* C26 *)

\* C26: without an api_key in extra_options prepare_request fails: no request
\* is produced and no round trip is made.
C26_NoRequestWithoutApiKey ==
    (call.pc \in {"ready", "done"} /\ ~call.api_key) =>
        call.request = "none" /\ call.round_trips = <<>>

---------------------------------------------------------------------------
(* C27 *)

Parsed == call.pc = "parsed" /\ call.message.ok

\* C27: when the response has a structured tool_calls array, the ToolCall
\* segments come from the structured fields only, one per entry: JSON in the
\* text content is not turned into calls as well.
C27_StructuredArrayWins ==
    (call.pc = "parsed" /\ call.message.ok /\ call.payload.tool_calls # <<>>) =>
        Len(ToolCallsOf(call.message.segments))
            = Len(call.payload.tool_calls)
              + (IF call.payload.function_call.present THEN 1 ELSE 0)

\* C27 for the responses whose text content holds no tool call
C27_HoldsWhenContentIsNoCall ==
    (/\ call.pc = "parsed" /\ call.message.ok /\ call.payload.tool_calls # <<>>
     /\ \/ call.payload.content.kind # "str"
        \/ MaybeToolCallsFromContent(call.payload.content.v[1], 0).segments = <<>>) =>
        Len(ToolCallsOf(call.message.segments))
            = Len(call.payload.tool_calls)
              + (IF call.payload.function_call.present THEN 1 ELSE 0)

---------------------------------------------------------------------------
(* C28 *)

\* the content is a JSON object of type function or tool_call that has a name
\* and a map of arguments, and the response has no tool_calls
IsFunctionObject(payload) ==
    /\ payload.tool_calls = <<>>
    /\ payload.content.kind = "str"
    /\ ContentJson(payload.content.v[1]).json
    /\ ~ContentJson(payload.content.v[1]).is_list
    /\ LET block == ContentJson(payload.content.v[1]).blocks[1]
       IN  /\ block.type \in {"function", "tool_call"}
           /\ block.name # ""
           /\ block.arguments.kind = "map"

\* C28: such a response parses to a ToolCall segment with the object's name
\* and arguments and a non-empty call_id, and to no Text segment.
C28_FunctionObjectBecomesToolCall ==
    (Parsed /\ IsFunctionObject(call.payload)) =>
        LET block == ContentJson(call.payload.content.v[1]).blocks[1]
            segments == call.message.segments
        IN  /\ \E i \in 1..Len(segments) :
                  /\ IsToolCall(segments[i])
                  /\ segments[i].tool_name = block.name
                  /\ segments[i].arguments = block.arguments
                  /\ segments[i].call_id # ""
            /\ \A i \in 1..Len(segments) : ~IsText(segments[i])

\* the content of the example: one call of bash with command ls and a fresh id
C28_Witness ==
    /\ Parsed
    /\ call.payload.content = JStr(CONTENT_FUNCTION)
    /\ call.payload.tool_calls = <<>>
    /\ call.message.segments
           = <<ToolCallSegment("bash", JMap(<<"command", "ls">>), UuidPool[1])>>

---------------------------------------------------------------------------
(* C29 *)

\* C29: parse_response does not fail on the arguments of a tool call, and the
\* arguments of every ToolCall segment are a map.
C29_ArgumentsAlwaysAMap ==
    call.pc = "parsed" =>
        /\ call.message.ok
        /\ \A i \in 1..Len(call.message.segments) :
              IsToolCall(call.message.segments[i]) =>
                  call.message.segments[i].arguments.kind = "map"

\* arguments that are missing, a text of a JSON object, or a text that is no JSON
Decodable(arguments) ==
    \/ arguments.kind = "none"
    \/ /\ arguments.kind = "str"
       /\ \/ ~JsonLoads(arguments.v[1]).ok
          \/ JsonLoads(arguments.v[1]).value.kind = "map"

\* C29 for the responses whose arguments are all of these three kinds
C29_HoldsForTextsOfMaps ==
    (/\ call.pc = "parsed"
     /\ \A i \in 1..Len(call.payload.tool_calls) :
           Decodable(call.payload.tool_calls[i].function.arguments)
     /\ call.payload.content.kind = "str" =>
           \A i \in 1..Len(ContentJson(call.payload.content.v[1]).blocks) :
               LET block == ContentJson(call.payload.content.v[1]).blocks[i]
               IN  block.arguments.kind = "map" \/ Decodable(block.arguments)) =>
        /\ call.message.ok
        /\ \A i \in 1..Len(call.message.segments) :
              IsToolCall(call.message.segments[i]) =>
                  call.message.segments[i].arguments.kind = "map"

---------------------------------------------------------------------------
(* C25 *)

---------------------------------------------------------------------------
(* C30 *)

RECURSIVE SegmentsOfType(_, _, _)
\* the segments of one type in the messages of the given roles, in order
SegmentsOfType(messages, roles, type) ==
    IF messages = <<>> THEN <<>>
    ELSE (IF Head(messages).role \in roles
          THEN BlocksOfType(Head(messages).segments, type) ELSE <<>>)
         \o SegmentsOfType(Tail(messages), roles, type)

RECURSIVE EmittedResults(_)
EmittedResults(payload) ==
    IF payload = <<>> THEN <<>>
    ELSE (IF Head(payload).role = "tool" THEN <<Head(payload)>> ELSE <<>>)
         \o EmittedResults(Tail(payload))

RoundTripKeepsPairing ==
    LET calls == SegmentsOfType(call.before, {"assistant"}, "tool_call")
        results == SegmentsOfType(call.before, {"user", "tool"}, "tool_result")
        entries == EmittedCalls(call.messages)
        answers == EmittedResults(call.messages)
    IN  /\ Len(entries) = Len(calls)
        /\ \A k \in 1..Len(calls) :
              /\ entries[k].id = calls[k].call_id
              /\ entries[k].function.name = calls[k].tool_name
              /\ JsonLoads(entries[k].function.arguments.v[1]).value = calls[k].arguments
        /\ Len(answers) = Len(results)
        /\ \A k \in 1..Len(results) : \A j \in 1..Len(calls) :
              calls[j].call_id = results[k].call_id =>
                  answers[k].tool_call_id = entries[j].id
        /\ call.message.ok
        /\ call.message.segments = calls

RoundTripMade == call.pc = "parsed_back"

\* C30: for every transcript and every call_id, prepare_request of the OpenAI
\* adapter emits each ToolCall as a tool_calls entry with its id, name and
\* arguments, in order, and each ToolResult as a tool message whose
\* tool_call_id is the id emitted for the call with the same call_id; and
\* parse_response gives the same ToolCall segments back from those entries.
C30_RoundTripKeepsPairing == RoundTripMade => RoundTripKeepsPairing

\* C30 for the transcripts in which no call_id is empty
C30_HoldsForNonEmptyIds ==
    (/\ RoundTripMade
     /\ \A m \in 1..Len(call.before) : \A k \in 1..Len(call.before[m].segments) :
           call.before[m].segments[k].type \in {"tool_call", "tool_result"} =>
               call.before[m].segments[k].call_id # "") =>
        RoundTripKeepsPairing

---------------------------------------------------------------------------
(* C31 *)

ToolResultEncoded == call.pc = "encoded" /\ call.segment.images # <<>>

\* the image_url blocks of the encoded content
EmbeddedImages == BlocksOfType(call.message.content.v, "image_url")

\* C31: the images of a tool result are embedded as image_url blocks with a
\* data URI when the backend advertises multimodal tool results, and are
\* otherwise replaced by the text "[N image(s) omitted]".
C31_ImagesEmbeddedOrPlaceholder ==
    ToolResultEncoded =>
        IF call.multimodal
        THEN /\ Len(EmbeddedImages) = Len(call.segment.images)
             /\ \A k \in 1..Len(EmbeddedImages) : EmbeddedImages[k].url[1] = "data:"
        ELSE EmbeddedImages = <<>>

\* C31 for a multimodal backend and base64 images that have data
C31_HoldsForMultimodalBase64 ==
    (/\ ToolResultEncoded
     /\ call.multimodal
     /\ \A k \in 1..Len(call.segment.images) :
           call.segment.images[k].type = "base64" /\ call.segment.images[k].data # NoKey) =>
        /\ call.message.content.kind = "list"
        /\ Len(EmbeddedImages) = Len(call.segment.images)
        /\ \A k \in 1..Len(EmbeddedImages) :
              EmbeddedImages[k].url =
                  DataUri(IF call.segment.images[k].media_type = NoKey THEN "image/png"
                          ELSE call.segment.images[k].media_type,
                          call.segment.images[k].data)

---------------------------------------------------------------------------
(* C32 *)

\* the place of the first block of the type in the content, 0 when there is none
FirstOfType(content, type) ==
    IF \E k \in 1..Len(content) : content[k].type = type
    THEN CHOOSE k \in 1..Len(content) :
             /\ content[k].type = type
             /\ \A j \in 1..(k - 1) : content[j].type # type
    ELSE 0

TextBeforeFirstToolUse(message) ==
    \E k \in 1..(FirstOfType(message.content, "tool_use") - 1) :
        message.content[k].type = "text" /\ message.content[k].text # <<>>

\* C32: every assistant message with a tool call that the loop appends has a
\* non-empty text block before its first tool_use block.
C32_RationaleBeforeAction ==
    Started(run) =>
        \A i \in 1..Len(run.messages) :
            HasToolUse(run.messages[i]) => TextBeforeFirstToolUse(run.messages[i])

\* every such message has a non-empty text block somewhere, and one before the
\* first tool_use when the model's response had no text of its own
C32_SomeTextInEveryToolMessage ==
    Started(run) =>
        \A i \in 1..Len(run.messages) :
            HasToolUse(run.messages[i]) =>
                /\ BlocksOfType(run.messages[i].content, "text") # <<>>
                /\ (Len(BlocksOfType(run.messages[i].content, "text")) = 1
                    /\ run.messages[i].content[1].type = "text"
                    /\ run.messages[i].content[1].text[1] = "Calling")
                       => TextBeforeFirstToolUse(run.messages[i])

---------------------------------------------------------------------------
(* C33 *)

RECURSIVE AssistantBlocks(_, _)
\* the content blocks of the assistant messages, of all of them or of those
\* with a tool call only
AssistantBlocks(messages, tool_turns_only) ==
    IF messages = <<>> THEN <<>>
    ELSE (IF /\ Head(messages).role = "assistant"
             /\ (tool_turns_only => HasToolUse(Head(messages)))
          THEN Head(messages).content ELSE <<>>)
         \o AssistantBlocks(Tail(messages), tool_turns_only)

\* C33: output_callback is called once, in segment order, for every content
\* segment of every assistant message the loop appends, the final response
\* without tool calls and a response answered by the reminder included.
C33_EverySegmentReachesOutputCallback ==
    (Started(run) /\ TurnSettled(run)) =>
        run.output_calls = AssistantBlocks(run.messages, FALSE)

\* C33 for the assistant messages that hold a tool call
C33_HoldsForToolTurns ==
    (Started(run) /\ TurnSettled(run) /\ run.exit_reason # "tool_error") =>
        run.output_calls = AssistantBlocks(run.messages, TRUE)

---------------------------------------------------------------------------
(* C34 *)

\* the run has gone past its first loop head and was not stopped there
PastFirstLoopHead(s) ==
    s.timeout_polls >= 1 /\ s.exit_reason \notin {"timeout", "budget"}

\* C34: given a first message whose content is a plain string, sampling_loop
\* builds the request and performs the model call, and the first message
\* stays as it was.
C34_StringContentAccepted ==
    (IsStringContent(run.messages[1]) /\ PastFirstLoopHead(run)) =>
        /\ run.invoke_count >= 1
        /\ run.exit_reason # "transcript_error"
        /\ run.messages[1] = StringMessages[1]

\* the same for a first message whose content is a list of blocks
C34_HoldsForListContent ==
    (~IsStringContent(run.messages[1]) /\ PastFirstLoopHead(run)) =>
        /\ run.invoke_count >= 1
        /\ run.exit_reason # "transcript_error"
        /\ run.messages[1] = InitialMessages[1]

---------------------------------------------------------------------------
(* C35 *)

\* the segment is what the claim says the block becomes
SegmentOfBlock(segment, block) ==
    CASE block.type = "text" -> segment = [type |-> "text", text |-> block.text]
      [] block.type = "thinking" ->
             segment = [type |-> "thinking", content |-> block.thinking,
                        signature |-> block.signature]
      [] OTHER ->
             /\ segment.type \in {"tool_call", "tool_result"}
             /\ segment.call_id = block.id
             /\ segment.type = "tool_call" =>
                    segment.tool_name = block.name /\ segment.arguments = block.input

OneSegmentPerBlock ==
    /\ Len(call.segments) = Len(call.content)
    /\ \A k \in 1..Len(call.content) : SegmentOfBlock(call.segments[k], call.content[k])

\* C35: parse_response of the Anthropic adapter yields one segment per
\* content block of the response, in block order, dropping none: Text for a
\* text block, Thinking with its signature for a thinking block, a ToolCall
\* or ToolResult with the block's id, name and input for any other block.
C35_OneSegmentPerBlock == call.pc = "parsed" => OneSegmentPerBlock

\* C35 for responses of non-empty text, thinking and tool_use blocks
C35_HoldsForKnownBlocks ==
    (/\ call.pc = "parsed"
     /\ \A k \in 1..Len(call.content) :
           /\ call.content[k].type \in {"text", "thinking", "tool_use"}
           /\ call.content[k].type = "text" => call.content[k].text # "") =>
        OneSegmentPerBlock

---------------------------------------------------------------------------
(* C36 *)

\* the push that put entry p on the history made its last K entries identical
RunCompletedAt(calls, p, K) ==
    p >= K /\ \A j \in (p - K + 1)..p : calls[j] = calls[p]

\* the places in the history of the calls pushed in the last turn
PushedInTurn == (Len(recent_tool_calls) - Len(turn_calls) + 1)..Len(recent_tool_calls)

\* C36: whenever pushing a tool call makes the last K signatures pushed
\* identical, a loop is reported in that turn, also when the call is not the
\* last one of its turn.
C36_EveryRunOfKReported ==
    (\E p \in PushedInTurn : RunCompletedAt(recent_tool_calls, p, max_repeated))
        => detection.is_loop

\* C36 for a run that the last call of the turn completes
C36_HoldsWhenRunEndsTheTurn ==
    (turn_calls # <<>>
     /\ RunCompletedAt(recent_tool_calls, Len(recent_tool_calls), max_repeated))
        => detection.is_loop

---------------------------------------------------------------------------
(* C37 *)

RECURSIVE CountKinds(_, _)
\* the events of the kinds among the events
CountKinds(events, kinds) ==
    IF events = <<>> THEN 0
    ELSE (IF Head(events).kind \in kinds THEN 1 ELSE 0) + CountKinds(Tail(events), kinds)

\* loop.py 563-573 records the loop notice as a TOOL_CALL_END event
ToolCallEnds == {"TOOL_CALL_END", "loop_detection"}

\* in every prefix of the events there are no more ends than starts, and in
\* the whole of them as many
Paired(events, starts, ends, complete) ==
    /\ \A n \in 0..Len(events) :
          CountKinds(SubSeq(events, 1, n), ends) <= CountKinds(SubSeq(events, 1, n), starts)
    /\ complete => CountKinds(events, ends) = CountKinds(events, starts)

\* no model call and no tool call is under way
NothingUnderWay(s) == s.pc \in {"loop_head", "returned", "raised"}

\* C37: every model call has a start event before it and one end event after
\* it, every tool call one start event followed by one end event, and there
\* is no end event without its start event.
C37_EventsPaired ==
    Started(run) =>
        /\ CountKinds(run.events, {"LLM_QUERY_START"}) = run.invoke_count
        /\ Paired(run.events, {"LLM_QUERY_START"}, {"LLM_QUERY_END"}, NothingUnderWay(run))
        /\ Paired(run.events, {"TOOL_CALL_START"}, ToolCallEnds, NothingUnderWay(run))

\* C37 without the loop notices, for the runs in which no exception leaves
\* the model call, the parse or a tool
C37_HoldsWithoutNoticesAndRaises ==
    (/\ Started(run)
     /\ run.exit_reason \notin {"invoke_error", "parse_error", "tool_error"}
     /\ \A i \in 1..Len(run.dispatched) : run.dispatched[i].behaviour # "Exception") =>
        /\ CountKinds(run.events, {"LLM_QUERY_START"}) = run.invoke_count
        /\ Paired(run.events, {"LLM_QUERY_START"}, {"LLM_QUERY_END"}, NothingUnderWay(run))
        /\ Paired(WithoutLoopDetection(run.events), {"TOOL_CALL_START"}, {"TOOL_CALL_END"},
                  NothingUnderWay(run))

---------------------------------------------------------------------------
(* C38 *)

\* C38: every exit of sampling_loop that does not raise returns the message
\* list, never None: on a response without tool calls, on an adapter error,
\* on a timeout at the loop head and on an exhausted max_llm_calls.
C38_EveryReturnGivesTheMessages ==
    (Started(run) /\ run.pc = "returned") => run.retval = "messages"

\* C38 for the exits other than the timeout and the exhausted budget
C38_HoldsForReturnStatements ==
    (Started(run) /\ run.pc = "returned" /\ run.exit_reason \notin {"timeout", "budget"})
        => run.retval = "messages"

---------------------------------------------------------------------------
(* C39 *)

\* the messages sampling_loop has appended to the ones it was given
Appended(s) == SubSeq(s.messages, Len(InitialMessages) + 1, Len(s.messages))

Alternating(messages) ==
    \A i \in 1..Len(messages) :
        messages[i].role = IF i % 2 = 1 THEN "assistant" ELSE "user"

\* every tool_use of the message at i has a tool_result in the message after it
AnsweredByNext(messages, i) ==
    /\ i < Len(messages)
    /\ messages[i + 1].role = "user"
    /\ \A k \in 1..Len(ToolUseIds(messages[i])) :
          \E j \in 1..Len(ToolResultIds(messages[i + 1])) :
              ToolResultIds(messages[i + 1])[j] = ToolUseIds(messages[i])[k]

ModelCallIssued(s) == s.pc = "awaiting_model"

\* C39: at every model call the last message has role user, the appended
\* messages alternate assistant, user, and every tool_use of an appended
\* assistant message has a tool_result with its id in the user message that
\* follows it.
C39_WellFormedAtEveryModelCall ==
    ModelCallIssued(run) =>
        /\ run.request = run.messages
        /\ Last(run.messages).role = "user"
        /\ Alternating(Appended(run))
        /\ \A i \in 1..Len(run.messages) :
              HasToolUse(run.messages[i]) => AnsweredByNext(run.messages, i)

\* a model call issued after a turn with two tool calls
C39_Witness ==
    /\ ModelCallIssued(run)
    /\ Len(run.messages) = 3
    /\ Len(ToolUseIds(run.messages[2])) = 2
    /\ ToolResultIds(run.messages[3]) = ToolUseIds(run.messages[2])

---------------------------------------------------------------------------
(* C40 *)

\* C40: the local tools of a run depend only on its tool_version and its
\* effective execution mode: a run in api mode leaves the tool group as it
\* was for later runs, so a later run in mixed or gui mode has the computer
\* tool.
C40_ToolsDependOnModeOnly ==
    call.pc = "process" =>
        \A k \in 1..Len(call.runs) : call.runs[k].tool_map = ToolMapFor(call.runs[k].mode)

\* C40 for the runs that no run in api mode came before
C40_HoldsUntilFirstApiRun ==
    call.pc = "process" =>
        \A k \in 1..Len(call.runs) :
            (\A j \in 1..(k - 1) : call.runs[j].mode # "api") =>
                call.runs[k].tool_map = ToolMapFor(call.runs[k].mode)

===========================================================================
